---- MODULE Spec2Model ----
(***************************************************************************)
(* command-guardian: intent classifier, policy engine, token store,        *)
(* receipt log and the 4-gate runner, modelled from the Python sources.    *)
(*                                                                         *)
(* A command is a sequence of whitespace-free words (toks) separated by    *)
(* single blanks, optionally followed by one trailing blank (trail).  The  *)
(* regular expressions of classifier.py and policy.py are translated to    *)
(* predicates over such word sequences.                                    *)
(***************************************************************************)
EXTENDS Integers, Sequences, FiniteSets, TLC

\* ------------------------------------------------------------------------
\* Bounds of the model
\* ------------------------------------------------------------------------
MaxCmdLen == 3
MaxLineLen == 2
MaxTokens == 2
MaxTime == 1
MaxPrior == 1
DayLen == 1
MaxWrites == 3
MaxTail == 3
MaxIssued == 3
MaxRuns == 2

\* ------------------------------------------------------------------------
\* classifier.py : intent names
\* ------------------------------------------------------------------------
SAFE_ECHO == "safe_echo"
SHELL_RUN == "shell_run"
FILE_DELETE == "file_delete"
NETWORK_EXEC == "network_exec"
PRIVILEGE_ESCALATION == "privilege_escalation"
DISK_FORMAT == "disk_format"
PROCESS_KILL == "process_kill"
SYSTEM_CONFIG == "system_config"

ALL_INTENTS ==
  { SAFE_ECHO, SHELL_RUN, FILE_DELETE, NETWORK_EXEC, PRIVILEGE_ESCALATION,
    DISK_FORMAT, PROCESS_KILL, SYSTEM_CONFIG }

\* ------------------------------------------------------------------------
\* Words and their lexical classes (what each regex fragment matches)
\* ------------------------------------------------------------------------
\* (^|\||\;|\&\&) : the words that end in a command separator
SepWords == { "|", ";", "&&" }
\* words containing a pipe character followed by nothing
PipeWords == { "|" }
\* -[A-Za-z]*r[A-Za-z]*f[A-Za-z]* (re.I)
FlagsRF == { "-rf" }
\* -[A-Za-z]*f[A-Za-z]*r[A-Za-z]* (re.I)
FlagsFR == { "-fr" }
\* (curl|wget) at the end of a word
CurlWget == { "curl", "wget" }
\* (ba)?sh at the start of a word
ShWords == { "sh", "bash" }
\* \biex\b or \bInvoke-Expression\b inside a word
IexWords == { "iex", "Invoke-Expression" }
\* (iwr|Invoke-WebRequest) at the end of a word
IwrWords == { "iwr", "Invoke-WebRequest" }
\* (mkfs|diskpart) at the start of a word
MkfsWords == { "mkfs", "mkfs.ext4", "diskpart" }
\* [A-Za-z]\: at the start of a word (also \w+\:)
DriveWords == { "C:" }
\* \bof=/dev/ inside a word
OfDevWords == { "of=/dev/sda" }

\* a command [toks, trail]; Blank(c, i): whitespace follows word i (\s+)
Blank(c, i) == i < Len(c.toks) \/ (i = Len(c.toks) /\ c.trail)

\* str.strip(): leading and trailing whitespace removed
Strip(c) == [toks |-> c.toks, trail |-> FALSE]

\* (^|\||\;|\&\&)\s* : word i starts the command or follows a separator
AtBoundary(c, i) == i = 1 \/ (i > 1 /\ c.toks[i - 1] \in SepWords)

\* (^|\||\;|\&\&)\s*(w1|w2|...)\s+
Anchored(c, words) ==
  \E i \in 1..Len(c.toks) : AtBoundary(c, i) /\ c.toks[i] \in words /\ Blank(c, i)

\* (a1|a2)\s+.*\|\s*(b1|b2) : a fetch word, later a pipe, then a shell word
PipedTo(c, fetch, shells) ==
  \E i \in 1..Len(c.toks) : \E j \in (i + 1)..(Len(c.toks) - 1) :
     c.toks[i] \in fetch /\ c.toks[j] \in PipeWords /\ c.toks[j + 1] \in shells

\* \bdd\b.*\bof=/dev/
DdToDevice(c) ==
  \E i \in 1..Len(c.toks) : \E j \in (i + 1)..Len(c.toks) :
     c.toks[i] = "dd" /\ c.toks[j] \in OfDevWords

\* powershell\s+.*(\biex\b|\bInvoke-Expression\b)
PowershellIex(c) ==
  \E i \in 1..Len(c.toks) : \E j \in (i + 1)..Len(c.toks) :
     c.toks[i] = "powershell" /\ c.toks[j] \in IexWords

\* ------------------------------------------------------------------------
\* classifier.py : _RULES (order matters, first match wins) and classify
\* ------------------------------------------------------------------------
RuleMatches(n, c) ==
  CASE n = 1 ->
         \* (^|\||\;|\&\&)\s*(mkfs|format\s+\w+\:|diskpart|dd\s+)
         \E i \in 1..Len(c.toks) :
            /\ AtBoundary(c, i)
            /\ \/ c.toks[i] \in MkfsWords
               \/ c.toks[i] = "format" /\ i < Len(c.toks) /\ c.toks[i + 1] \in DriveWords
               \/ c.toks[i] = "dd" /\ Blank(c, i)
    [] n = 2 -> DdToDevice(c)
    [] n = 3 -> PipedTo(c, CurlWget, ShWords)
    [] n = 4 ->
         \* powershell\s+.*(\biex\b|\bInvoke-Expression\b|\biwr\b.*\|\s*iex)
         \/ PowershellIex(c)
         \/ \E i \in 1..Len(c.toks) : \E j \in (i + 1)..Len(c.toks) :
               /\ c.toks[i] = "powershell" /\ c.toks[j] = "iwr"
               /\ \E k \in (j + 1)..(Len(c.toks) - 1) :
                     c.toks[k] \in PipeWords /\ c.toks[k + 1] \in IexWords
    [] n = 5 -> PipedTo(c, CurlWget \cup IwrWords, IexWords \cup ShWords)
    [] n = 6 -> Anchored(c, { "rm" })
    [] n = 7 -> Anchored(c, { "del", "rmdir", "Remove-Item" })
    [] n = 8 -> Anchored(c, { "sudo", "doas", "runas", "pkexec" })
    [] n = 9 ->
         \* \bchmod\s+.*\b777\b
         \E i \in 1..Len(c.toks) : \E j \in (i + 1)..Len(c.toks) :
            c.toks[i] = "chmod" /\ c.toks[j] = "777"
    [] n = 10 ->
         \* \bchmod\s+-R\s+
         \E i \in 1..(Len(c.toks) - 1) :
            c.toks[i] = "chmod" /\ c.toks[i + 1] = "-R" /\ Blank(c, i + 1)
    [] n = 11 -> Anchored(c, { "kill", "killall", "pkill" })
    [] n = 12 -> Anchored(c, { "taskkill" })
    [] n = 13 ->
         \* (^|\||\;|\&\&)\s*(sysctl|systemctl|launchctl|reg\s+(add|delete))\s+
         \/ Anchored(c, { "sysctl", "systemctl", "launchctl" })
         \/ \E i \in 1..(Len(c.toks) - 1) :
               /\ AtBoundary(c, i) /\ c.toks[i] = "reg"
               /\ c.toks[i + 1] \in { "add", "delete" } /\ Blank(c, i + 1)
    [] n = 14 -> \E i \in 1..Len(c.toks) : c.toks[i] = "regedit"
    [] n = 15 -> Len(c.toks) >= 1 /\ c.toks[1] = "echo" /\ Blank(c, 1)
    [] n = 16 -> Len(c.toks) >= 1 /\ c.toks[1] = "printf" /\ Blank(c, 1)
    [] OTHER -> FALSE

RULES ==
  << DISK_FORMAT, DISK_FORMAT,
     NETWORK_EXEC, NETWORK_EXEC, NETWORK_EXEC,
     FILE_DELETE, FILE_DELETE,
     PRIVILEGE_ESCALATION, PRIVILEGE_ESCALATION, PRIVILEGE_ESCALATION,
     PROCESS_KILL, PROCESS_KILL,
     SYSTEM_CONFIG, SYSTEM_CONFIG,
     SAFE_ECHO, SAFE_ECHO >>

\* Faulty variant of ClassifyFrom: the last matching rule wins.
RECURSIVE ClassifyFrom_last_match(_, _)
ClassifyFrom_last_match(cmd, n) ==
  IF n > Len(RULES) THEN SHELL_RUN
  ELSE IF RuleMatches(n, cmd) /\ \A m \in (n + 1)..Len(RULES) : ~RuleMatches(m, cmd)
       THEN RULES[n]
  ELSE ClassifyFrom_last_match(cmd, n + 1)

\* the for loop of classify over _RULES, from position n on
RECURSIVE ClassifyFrom(_, _)
ClassifyFrom(cmd, n) ==
  IF n > Len(RULES) THEN SHELL_RUN
  ELSE IF RuleMatches(n, cmd) THEN RULES[n]
  ELSE ClassifyFrom(cmd, n + 1)

classify(command) == ClassifyFrom(Strip(command), 1)

\* ------------------------------------------------------------------------
\* State
\* ------------------------------------------------------------------------
VARIABLES
  always_block,   \* policy._ALWAYS_BLOCK: the module-level list of block rules
  tokens,         \* tokens.json: the stored token records, in file order
  issued,         \* number of tokens issued so far (source of fresh token ids)
  now,            \* the clock read by datetime.now(timezone.utc)
  log,            \* the audit directory: day |-> sequence of receipt records
  pc,             \* position of the current run() invocation
  command,        \* run(): command
  skip_confirm,   \* run(): skip_confirm
  confirm_callback, \* run(): TRUE when a confirm_callback was supplied
  intent,         \* run(): intent
  pol,            \* run(): pol
  tok,            \* run(): tok, the result of find_valid_token
  token_id,       \* run(): token_id
  expires_at,     \* run(): expires_at
  answer,         \* what the confirmation collaborator did
  authorized,     \* run(): authorized
  re_intent,      \* run(): re_intent
  re_pol,         \* run(): re_pol
  rec,            \* run(): rec, the receipt written by this invocation
  outcome,        \* how run() ended: the RunResult returned or the exception raised
  trace,          \* the steps this invocation has taken, in order
  executed,       \* the commands handed to _execute_command, in order
  prompts,        \* number of calls of the confirmation collaborator
  log0,           \* the log when this invocation started
  tokens0,        \* the token store when this invocation started
  p_command,      \* evaluate(): command argument of the last direct call
  p_intent,       \* evaluate(): intent argument of the last direct call
  p_result,       \* evaluate(): PolicyResult of the last direct call
  completed,      \* what subprocess.run did inside _execute_command
  tamper,         \* the edit made to the audit files from outside, if any
  op,             \* the last direct call of a store or log operation, with its result
  tokens_ok,      \* TRUE when the bytes of tokens.json are a complete JSON document
  procs,          \* the processes that run a store or log operation step by step
  hist            \* history: calls that overlapped, tokens that issue_token returned

\* Python's None, where the value is otherwise a record, and where it is a string
None == [none |-> TRUE]
NoText == "None"

\* ------------------------------------------------------------------------
\* policy.py : Decision, _ALWAYS_BLOCK, RISKY_INTENTS, evaluate
\* ------------------------------------------------------------------------
ALLOW == "ALLOW"
DENY == "DENY"

\* _BlockRule.pattern.search(command) for the n-th rule of policy.py; the
\* rule numbered 10 is not in policy.py: it stands for a rule added to the
\* list while the process runs (ExtraRule below).
BlockMatches(n, c) ==
  CASE n = 1 ->
         \* \brm\s+.*-[A-Za-z]*r[A-Za-z]*f[A-Za-z]*\s+/\s*$
         \E i \in 1..Len(c.toks) :
            /\ c.toks[i] = "rm"
            /\ i < Len(c.toks) - 1
            /\ c.toks[Len(c.toks) - 1] \in FlagsRF
            /\ c.toks[Len(c.toks)] = "/"
    [] n = 2 ->
         \* \brm\s+.*-[A-Za-z]*f[A-Za-z]*r[A-Za-z]*\s+/\s*$
         \E i \in 1..Len(c.toks) :
            /\ c.toks[i] = "rm"
            /\ i < Len(c.toks) - 1
            /\ c.toks[Len(c.toks) - 1] \in FlagsFR
            /\ c.toks[Len(c.toks)] = "/"
    [] n = 3 ->
         \* \brm\s+.*-[A-Za-z]*r[A-Za-z]*f[A-Za-z]*\s+/\*
         \E i \in 1..Len(c.toks) : \E j \in (i + 1)..(Len(c.toks) - 1) :
            c.toks[i] = "rm" /\ c.toks[j] \in FlagsRF /\ c.toks[j + 1] = "/*"
    [] n = 4 -> PipedTo(c, CurlWget, ShWords)
    [] n = 5 -> PowershellIex(c)
    [] n = 6 -> PipedTo(c, IwrWords, IexWords)
    [] n = 7 ->
         \* (^|\s)(mkfs|diskpart)\b
         \E i \in 1..Len(c.toks) : c.toks[i] \in MkfsWords
    [] n = 8 ->
         \* \bformat\s+[A-Za-z]\:
         \E i \in 1..(Len(c.toks) - 1) :
            c.toks[i] = "format" /\ c.toks[i + 1] \in DriveWords
    [] n = 9 -> DdToDevice(c)
    [] n = 10 -> \E i \in 1..Len(c.toks) : c.toks[i] = "rm"
    [] OTHER -> FALSE

BlockDescription(n) ==
  CASE n \in { 1, 2 } -> "Destructive root deletion (rm -rf /)"
    [] n = 3 -> "Destructive root deletion (rm -rf /*)"
    [] n = 4 -> "Network download piped to shell execution (curl|wget ... | bash/sh)"
    [] n \in { 5, 6 } -> "PowerShell download-and-execute pattern"
    [] n = 7 -> "Disk formatting command (mkfs/format/diskpart)"
    [] n = 8 -> "Disk formatting command (format drive)"
    [] n = 9 -> "Destructive device write (dd ... of=/dev/...)"
    [] OTHER -> "Recursive or forced deletion"

ALWAYS_BLOCK == << 1, 2, 3, 4, 5, 6, 7, 8, 9 >>
ExtraRule == 10

\* Faulty variant of RISKY_INTENTS: network execution needs authorization too.
RISKY_INTENTS_with_network_exec ==
  { FILE_DELETE, PRIVILEGE_ESCALATION, PROCESS_KILL, SYSTEM_CONFIG, NETWORK_EXEC }

RISKY_INTENTS == { FILE_DELETE, PRIVILEGE_ESCALATION, PROCESS_KILL, SYSTEM_CONFIG }

\* _suggestion_for: the substring tests on description.lower(), in order
suggestion_for(description) ==
  CASE description \in { "Destructive root deletion (rm -rf /)",
                         "Destructive root deletion (rm -rf /*)" } ->
         "Delete specific paths instead: rm -rf ./my_folder"
    [] description \in { "Network download piped to shell execution (curl|wget ... | bash/sh)",
                         "PowerShell download-and-execute pattern" } ->
         "Download the script first, review it, then run it"
    [] description \in { "Disk formatting command (mkfs/format/diskpart)",
                         "Disk formatting command (format drive)" } ->
         "Use safe disk utilities with explicit confirmation."
    [] description = "Destructive device write (dd ... of=/dev/...)" ->
         "Double-check the target device; use a file path instead of a block device."
    [] OTHER -> NoText

suggestion_for_intent(i) ==
  CASE i = FILE_DELETE ->
         "Use guardian allow file_delete --ttl 30 to pre-authorize, or confirm interactively."
    [] i = PRIVILEGE_ESCALATION ->
         "Review the command carefully. Use guardian allow privilege_escalation --ttl 30."
    [] i = PROCESS_KILL -> "Consider graceful termination (kill <pid>) before kill -9."
    [] i = SYSTEM_CONFIG -> "Back up your configuration first."
    [] OTHER -> NoText

\* Faulty variant of PolicyResult: every DENY asks for authorization.
PolicyResult_auth_on_deny(d, r, ra, s) ==
  [decision |-> d, reason |-> r, requires_auth |-> (d = "DENY"), suggestion |-> s]

PolicyResult(d, r, ra, s) ==
  [decision |-> d, reason |-> r, requires_auth |-> ra, suggestion |-> s]

\* Faulty variant of EvaluateFrom: the last matching block rule wins.
RECURSIVE EvaluateFrom_last_match(_, _, _, _)
EvaluateFrom_last_match(rules, c, i, n) ==
  IF n > Len(rules) THEN
    IF i \in RISKY_INTENTS THEN
      [decision |-> "DENY",
       reason |-> << "Risky intent requires explicit authorization", i >>,
       requires_auth |-> TRUE, suggestion |-> suggestion_for_intent(i)]
    ELSE [decision |-> "ALLOW", reason |-> << "Command allowed by policy." >>,
          requires_auth |-> FALSE, suggestion |-> NoText]
  ELSE IF BlockMatches(rules[n], c)
          /\ \A m \in (n + 1)..Len(rules) : ~BlockMatches(rules[m], c) THEN
    [decision |-> "DENY", reason |-> << "BLOCKED", BlockDescription(rules[n]) >>,
     requires_auth |-> FALSE,
     suggestion |-> suggestion_for(BlockDescription(rules[n]))]
  ELSE EvaluateFrom_last_match(rules, c, i, n + 1)

\* the for loop of evaluate over the block rules, from position n on
RECURSIVE EvaluateFrom(_, _, _, _)
EvaluateFrom(rules, c, i, n) ==
  IF n > Len(rules) THEN
    IF i \in RISKY_INTENTS THEN
      PolicyResult(DENY, << "Risky intent requires explicit authorization", i >>,
                   TRUE, suggestion_for_intent(i))
    ELSE PolicyResult(ALLOW, << "Command allowed by policy." >>, FALSE, NoText)
  ELSE IF BlockMatches(rules[n], c) THEN
    PolicyResult(DENY, << "BLOCKED", BlockDescription(rules[n]) >>, FALSE,
                 suggestion_for(BlockDescription(rules[n])))
  ELSE EvaluateFrom(rules, c, i, n + 1)

\* Faulty variant of evaluate: the risk gate is consulted before the block rules.
evaluate_risk_first(c, i) ==
  IF i \in RISKY_INTENTS THEN
    PolicyResult(DENY, << "Risky intent requires explicit authorization", i >>,
                 TRUE, suggestion_for_intent(i))
  ELSE EvaluateFrom(always_block, c, i, 1)

\* Faulty variant of evaluate: a stored token for the intent turns the
\* decision into ALLOW.
evaluate_reads_token_store(c, i) ==
  IF \E k \in 1..Len(tokens) : tokens[k].intent = i
  THEN PolicyResult(ALLOW, << "Command allowed by policy." >>, FALSE, NoText)
  ELSE EvaluateFrom(always_block, c, i, 1)

evaluate(c, i) == EvaluateFrom(always_block, c, i, 1)

\* ------------------------------------------------------------------------
\* Commands
\* ------------------------------------------------------------------------
Cmd(words, blank) == [toks |-> words, trail |-> blank]

\* the words of the exhaustively enumerated commands
CoreWords ==
  { "rm", "-rf", "/", "x", "curl", "|", "sh", "mkfs", "dd", "of=/dev/sda",
    "sudo", "echo" }

BoundedCommands ==
  { Cmd(w, b) : w \in UNION { [1..n -> CoreWords] : n \in 0..MaxCmdLen },
                b \in BOOLEAN }

\* the commands of the test suite (arguments shortened to the word x) and
\* commands that combine a block rule with each kind of intent
Corpus ==
  { Cmd(<< "rm", "-rf", "/" >>, FALSE),
    Cmd(<< "rm", "-rf", "/*" >>, FALSE),
    Cmd(<< "rm", "-fr", "/" >>, FALSE),
    Cmd(<< "rm", "-rf", "x" >>, FALSE),
    Cmd(<< "curl", "x", "|", "bash" >>, FALSE),
    Cmd(<< "iwr", "x", "|", "sh" >>, FALSE),
    Cmd(<< "iwr", "x", "|", "iex" >>, FALSE),
    Cmd(<< "powershell", "-c", "iex" >>, FALSE),
    Cmd(<< "mkfs.ext4", "x" >>, FALSE),
    Cmd(<< "format", "C:" >>, FALSE),
    Cmd(<< "dd", "x", "of=/dev/sda" >>, FALSE),
    Cmd(<< "dd", "x" >>, FALSE),
    Cmd(<< "sudo", "x" >>, FALSE),
    Cmd(<< "sudo", "mkfs" >>, FALSE),
    Cmd(<< "chmod", "-R", "777", "x" >>, FALSE),
    Cmd(<< "kill", "-9", "x" >>, FALSE),
    Cmd(<< "kill" >>, TRUE),
    Cmd(<< "taskkill", "x" >>, FALSE),
    Cmd(<< "systemctl", "x" >>, FALSE),
    Cmd(<< "reg", "add", "x" >>, FALSE),
    Cmd(<< "regedit" >>, FALSE),
    Cmd(<< "echo", "x" >>, FALSE),
    Cmd(<< "echo", "mkfs" >>, FALSE),
    Cmd(<< "echo", "x", ";", "rm", "x" >>, FALSE),
    Cmd(<< "printf", "x" >>, FALSE),
    Cmd(<< "x" >>, FALSE),
    Cmd(<< "x", "mkfs" >>, FALSE),
    Cmd(<< >>, FALSE) }

Commands == BoundedCommands \cup Corpus

\* the commands run() is called with: one or more of each combination of
\* intent and block rule that the corpus holds
RunCommands ==
  { Cmd(<< "rm", "-rf", "/" >>, FALSE),
    Cmd(<< "rm", "-rf", "x" >>, FALSE),
    Cmd(<< "curl", "x", "|", "bash" >>, FALSE),
    Cmd(<< "iwr", "x", "|", "sh" >>, FALSE),
    Cmd(<< "mkfs.ext4", "x" >>, FALSE),
    Cmd(<< "dd", "x" >>, FALSE),
    Cmd(<< "sudo", "x" >>, FALSE),
    Cmd(<< "sudo", "mkfs" >>, FALSE),
    Cmd(<< "kill", "-9", "x" >>, FALSE),
    Cmd(<< "kill" >>, TRUE),
    Cmd(<< "systemctl", "x" >>, FALSE),
    Cmd(<< "echo", "x" >>, FALSE),
    Cmd(<< "echo", "mkfs" >>, FALSE),
    Cmd(<< "echo", "x", ";", "rm", "x" >>, FALSE),
    Cmd(<< "x" >>, FALSE),
    Cmd(<< "x", "mkfs" >>, FALSE) }

\* the intents handed to evaluate: the enumeration and one string outside it
IntentArgs == ALL_INTENTS \cup { "unknown" }

\* ------------------------------------------------------------------------
\* tokens.py
\* ------------------------------------------------------------------------
\* datetime.isoformat() and datetime.fromisoformat() of a UTC instant
isoformat(t) == [iso8601 |-> t, tz |-> "+00:00"]
fromisoformat(str) == str.iso8601

sha256(text) == << "sha256", text >>

\* uuid.uuid4().hex[:16]: the n-th identifier drawn
uuid4(n) == [uuid |-> n]

\* _canonical_hash(record): sha256 of the JSON with sorted keys
token_canonical_hash(r) ==
  sha256(<< << "expires_at", r.expires_at >>, << "intent", r.intent >>,
            << "issued_at", r.issued_at >>, << "token_id", r.token_id >>,
            << "ttl", r.ttl >> >>)

TokenRecord(id, i, t, ttl) ==
  LET r == [token_id |-> id, intent |-> i, issued_at |-> isoformat(t),
            expires_at |-> isoformat(t + ttl), ttl |-> ttl]
  IN  [token_id |-> r.token_id, intent |-> r.intent, issued_at |-> r.issued_at,
       expires_at |-> r.expires_at, ttl |-> r.ttl,
       decision_hash |-> token_canonical_hash(r)]

\* Faulty variant of FindValidFrom: the intent of the token is not compared.
RECURSIVE FindValidFrom_any_intent(_, _, _, _)
FindValidFrom_any_intent(stored, i, t, n) ==
  IF n > Len(stored) THEN None
  ELSE IF fromisoformat(stored[n].expires_at) > t THEN stored[n]
  ELSE FindValidFrom_any_intent(stored, i, t, n + 1)

\* Faulty variant of FindValidFrom: a token is still valid at its expiry instant.
RECURSIVE FindValidFrom_valid_at_expiry(_, _, _, _)
FindValidFrom_valid_at_expiry(stored, i, t, n) ==
  IF n > Len(stored) THEN None
  ELSE IF stored[n].intent # i THEN FindValidFrom_valid_at_expiry(stored, i, t, n + 1)
  ELSE IF fromisoformat(stored[n].expires_at) >= t THEN stored[n]
  ELSE FindValidFrom_valid_at_expiry(stored, i, t, n + 1)

\* Faulty variant of FindValidFrom: the most recently stored valid token wins.
RECURSIVE FindValidFrom_latest(_, _, _, _)
FindValidFrom_latest(stored, i, t, n) ==
  IF n > Len(stored) THEN None
  ELSE IF FindValidFrom_latest(stored, i, t, n + 1) # None
       THEN FindValidFrom_latest(stored, i, t, n + 1)
  ELSE IF stored[n].intent = i /\ fromisoformat(stored[n].expires_at) > t
       THEN stored[n]
  ELSE None

\* the for loop of find_valid_token over the stored tokens, from position n on
RECURSIVE FindValidFrom(_, _, _, _)
FindValidFrom(stored, i, t, n) ==
  IF n > Len(stored) THEN None
  ELSE IF stored[n].intent # i THEN FindValidFrom(stored, i, t, n + 1)
  ELSE IF fromisoformat(stored[n].expires_at) > t THEN stored[n]
  ELSE FindValidFrom(stored, i, t, n + 1)

find_valid_token(i) == FindValidFrom(tokens, i, now, 1)

\* the for loop of prune_expired: the tokens kept, from position n on
\* Faulty variant of KeptFrom: a token is kept at its expiry instant.
RECURSIVE KeptFrom_at_expiry(_, _, _)
KeptFrom_at_expiry(stored, t, n) ==
  IF n > Len(stored) THEN << >>
  ELSE IF fromisoformat(stored[n].expires_at) >= t
       THEN << stored[n] >> \o KeptFrom_at_expiry(stored, t, n + 1)
       ELSE KeptFrom_at_expiry(stored, t, n + 1)

\* the for loop of prune_expired from position n on: the list kept
RECURSIVE KeptFrom(_, _, _)
KeptFrom(stored, t, n) ==
  IF n > Len(stored) THEN << >>
  ELSE IF fromisoformat(stored[n].expires_at) > t
       THEN << stored[n] >> \o KeptFrom(stored, t, n + 1)
       ELSE KeptFrom(stored, t, n + 1)

\* the for loop of prune_expired from position n on: the counter removed
RECURSIVE RemovedFrom(_, _, _)
RemovedFrom(stored, t, n) ==
  IF n > Len(stored) THEN 0
  ELSE IF fromisoformat(stored[n].expires_at) > t
       THEN RemovedFrom(stored, t, n + 1)
       ELSE 1 + RemovedFrom(stored, t, n + 1)

\* ------------------------------------------------------------------------
\* receipts.py
\* ------------------------------------------------------------------------
GENESIS_HASH == << "0000000000000000000000000000000000000000000000000000000000000000" >>

Days == 0..(MaxTime \div DayLen)

\* _today_file(): the day-file of the current UTC date
today_file == now \div DayLen

\* Faulty variant of last_hash: every record is chained to the genesis hash.
last_hash_always_genesis(filepath) == GENESIS_HASH

\* Faulty variant of last_hash: the hash of the first record of the file.
last_hash_of_first_record(filepath) ==
  IF log[filepath] = << >> THEN GENESIS_HASH ELSE log[filepath][1].hash

\* _last_hash(filepath)
last_hash(filepath) ==
  IF log[filepath] = << >> THEN GENESIS_HASH
  ELSE log[filepath][Len(log[filepath])].hash

\* _canonical_json(record) of a record without its hash: keys sorted
canonical_json(r) ==
  << << "command", r.command >>, << "decision", r.decision >>,
     << "expires_at", r.expires_at >>, << "intent", r.intent >>,
     << "prev_hash", r.prev_hash >>, << "reason", r.reason >>,
     << "token_id", r.token_id >>, << "ts", r.ts >> >>

compute_hash(r) == sha256(canonical_json(r))

\* the record write_receipt builds and appends to today's file
receipt(i, c, d, r, tid, exp) ==
  LET body == [ts |-> isoformat(now), intent |-> i, command |-> c,
               decision |-> d, reason |-> r, token_id |-> tid,
               expires_at |-> exp, prev_hash |-> last_hash(today_file)]
  IN  [ts |-> body.ts, intent |-> body.intent, command |-> body.command,
       decision |-> body.decision, reason |-> body.reason,
       token_id |-> body.token_id, expires_at |-> body.expires_at,
       prev_hash |-> body.prev_hash, hash |-> compute_hash(body)]

\* Faulty variant of appended: the day-file is opened for writing, not for
\* appending, and the new record replaces what the file held.
appended_truncating(record) == [log EXCEPT ![today_file] = << record >>]

\* the audit directory after write_receipt appended record
appended(record) == [log EXCEPT ![today_file] = Append(@, record)]

\* a function that returns: its value; a function that raises: the exception
Returns(value) == [kind |-> "returned", value |-> value]

\* Words that hold a character at which str.splitlines() ends a line and that
\* json.dumps(..., ensure_ascii=False) writes unescaped (U+2028, U+2029, U+0085)
LineBreakWords == { "a<U+2028>b" }

\* the JSON line written for record is cut in two by splitlines()
BrokenLine(record) ==
  \E k \in 1..Len(record.command.toks) : record.command.toks[k] \in LineBreakWords

\* _last_hash(filepath) raises: json.loads(lines[-1]) gets a piece of a line
last_hash_raises(filepath) ==
  log[filepath] # << >> /\ BrokenLine(log[filepath][Len(log[filepath])])

\* read_receipts(filepath): [json.loads(line) for line in lines if line.strip()]
read_receipts(filepath) ==
  IF \E k \in 1..Len(log[filepath]) : BrokenLine(log[filepath][k])
  THEN [kind |-> "raised", exception |-> "JSONDecodeError"]
  ELSE Returns(log[filepath])

\* get_all_receipt_files(): the day files that exist, sorted by name, from day d on
RECURSIVE FilesFrom(_)
FilesFrom(d) ==
  IF d \notin Days THEN << >>
  ELSE (IF log[d] # << >> THEN << d >> ELSE << >>) \o FilesFrom(d + 1)

get_all_receipt_files == FilesFrom(0)

\* all_records[-n:] for n >= 0
LastSlice(all_records, n) ==
  IF n = 0 \/ n >= Len(all_records) THEN all_records
  ELSE SubSeq(all_records, Len(all_records) - n + 1, Len(all_records))

\* the loop of tail_receipts over reversed(files), at position k of files
RECURSIVE TailFrom(_, _, _, _)
TailFrom(files, k, all_records, n) ==
  IF k < 1 THEN Returns(LastSlice(all_records, n))
  ELSE IF read_receipts(files[k]).kind = "raised" THEN read_receipts(files[k])
  ELSE IF Len(read_receipts(files[k]).value \o all_records) >= n
       THEN Returns(LastSlice(read_receipts(files[k]).value \o all_records, n))
  ELSE TailFrom(files, k - 1, read_receipts(files[k]).value \o all_records, n)

tail_receipts(n) ==
  TailFrom(get_all_receipt_files, Len(get_all_receipt_files), << >>, n)

\* ------------------------------------------------------------------------
\* verify.py
\* ------------------------------------------------------------------------
VerifyResult(ok, total, failed_index, failed_reason) ==
  [ok |-> ok, total |-> total, failed_index |-> failed_index,
   failed_reason |-> failed_reason]

\* the inner loop of verify_chain from record i of a file on: the failure
\* found, or None when every record from i on passes
RECURSIVE VerifyRecords(_, _, _, _)
VerifyRecords(records, i, day_prev, global_index) ==
  IF i > Len(records) THEN None
  ELSE IF records[i].prev_hash # day_prev
       THEN VerifyResult(FALSE, global_index + i - 1, global_index + i - 1,
                         << "prev_hash mismatch at record", global_index + i - 1 >>)
  ELSE IF records[i].hash # compute_hash(records[i])
       THEN VerifyResult(FALSE, global_index + i - 1, global_index + i - 1,
                         << "hash mismatch at record", global_index + i - 1 >>)
  ELSE VerifyRecords(records, i + 1, records[i].hash, global_index)

\* Faulty variant of VerifyFiles: total counts the files, not their records.
RECURSIVE VerifyFiles_counting_files(_, _, _)
VerifyFiles_counting_files(files, n, global_index) ==
  IF n > Len(files) THEN Returns(VerifyResult(TRUE, Len(files), None, NoText))
  ELSE IF read_receipts(files[n]).kind = "raised" THEN read_receipts(files[n])
  ELSE IF VerifyRecords(read_receipts(files[n]).value, 1, GENESIS_HASH,
                        global_index) # None
       THEN Returns(VerifyRecords(read_receipts(files[n]).value, 1, GENESIS_HASH,
                                  global_index))
  ELSE VerifyFiles_counting_files(files, n + 1,
                                  global_index + Len(read_receipts(files[n]).value))

\* the outer loop of verify_chain from file n of files on
RECURSIVE VerifyFiles(_, _, _)
VerifyFiles(files, n, global_index) ==
  IF n > Len(files) THEN Returns(VerifyResult(TRUE, global_index, None, NoText))
  ELSE IF read_receipts(files[n]).kind = "raised" THEN read_receipts(files[n])
  ELSE IF VerifyRecords(read_receipts(files[n]).value, 1, GENESIS_HASH,
                        global_index) # None
       THEN Returns(VerifyRecords(read_receipts(files[n]).value, 1, GENESIS_HASH,
                                  global_index))
  ELSE VerifyFiles(files, n + 1, global_index + Len(read_receipts(files[n]).value))

verify_chain == VerifyFiles(get_all_receipt_files, 1, 0)

\* ------------------------------------------------------------------------
\* runner.py
\* ------------------------------------------------------------------------
vars ==
  << always_block, tokens, issued, now, log, pc, command, skip_confirm,
     confirm_callback, intent, pol, tok, token_id, expires_at, answer,
     authorized, re_intent, re_pol, rec, outcome, trace, executed, prompts,
     log0, tokens0, p_command, p_intent, p_result, completed, tamper, op,
     tokens_ok, procs, hist >>

\* what run() was called with, and the snapshots taken when it started
callVars == << command, skip_confirm, confirm_callback, log0, tokens0 >>
\* the direct calls of evaluate
policyVars == << p_command, p_intent, p_result >>
\* the local variables of run()
localVars ==
  << intent, pol, tok, token_id, expires_at, answer, authorized, re_intent,
     re_pol, rec, outcome, trace, executed, prompts, completed >>
\* the direct calls of the token store, the receipt log and the verifier, and
\* the edits made to the audit files from outside
opVars == << tamper, op >>
\* the bytes of tokens.json, the processes that call the token store and the
\* receipt log step by step, and what their calls have done so far
raceVars == << tokens_ok, procs, hist >>

RunResult(d, i, r, code, receipt_written) ==
  [kind |-> "returned", decision |-> d, intent |-> i, reason |-> r,
   exit_code |-> code, receipt |-> receipt_written]

Raised(exception) == [kind |-> "raised", exception |-> exception]

\* what _execute_command can return: the command's exit code (0 or not),
\* 124 on TimeoutExpired, 1 on any other exception
TIMEOUT_EXIT == 124
\* return codes of the shell subprocess
ExitCodes == { 0, 2, TIMEOUT_EXIT, 1 }

\* what subprocess.run(command, shell=True, ..., timeout=300) does: it returns
\* a CompletedProcess, or raises TimeoutExpired, or raises something else
SubprocessOutcomes ==
  { [kind |-> "CompletedProcess", returncode |-> rc] : rc \in ExitCodes }
    \cup { [kind |-> "TimeoutExpired"], [kind |-> "Exception"] }

\* Faulty variant of execute_command: a timeout is reported like any other
\* failure of the subprocess.
execute_command_timeout_as_failure(result) ==
  IF result.kind = "CompletedProcess" THEN result.returncode ELSE 1

\* the exit code _execute_command returns
execute_command(result) ==
  IF result.kind = "CompletedProcess" THEN result.returncode
  ELSE IF result.kind = "TimeoutExpired" THEN TIMEOUT_EXIT
  ELSE 1

\* the typed line: a sequence of pieces of text, " " being whitespace
LineChars == { "ALLOW", " ", "n" }
Lines == UNION { [1..n -> LineChars] : n \in 0..MaxLineLen }

\* str.strip() of the typed line
RECURSIVE lstrip(_)
lstrip(line) ==
  IF line # << >> /\ Head(line) = " " THEN lstrip(Tail(line)) ELSE line

RECURSIVE rstrip(_)
rstrip(line) ==
  IF line # << >> /\ line[Len(line)] = " "
  THEN rstrip(SubSeq(line, 1, Len(line) - 1)) ELSE line

strip(line) == rstrip(lstrip(line))

\* what the confirmation collaborator can do
StdinAnswers ==
  { [kind |-> "line", text |-> l] : l \in Lines }
    \cup { [kind |-> "EOFError"], [kind |-> "KeyboardInterrupt"] }

CallbackAnswers ==
  { [kind |-> "returned", value |-> b] : b \in BOOLEAN } \cup { [kind |-> "raised"] }

\* _interactive_confirm: input(...).strip() == "ALLOW", False on EOFError and
\* KeyboardInterrupt
\* Faulty variant of interactive_confirm: a line that starts with ALLOW is enough.
interactive_confirm_prefix(a) ==
  IF a.kind \in { "EOFError", "KeyboardInterrupt" } THEN FALSE
  ELSE strip(a.text) # << >> /\ Head(strip(a.text)) = "ALLOW"

interactive_confirm(a) ==
  IF a.kind \in { "EOFError", "KeyboardInterrupt" } THEN FALSE
  ELSE strip(a.text) = << "ALLOW" >>

\* write_receipt(..., decision="DENY") followed by return RunResult(DENY, exit 1);
\* disk_ok = FALSE: write_receipt raises and the exception leaves run()
DenyAndReturn(i, r, disk_ok) ==
  /\ trace' = Append(trace, "write_receipt DENY")
  /\ pc' = "done"
  /\ IF disk_ok
     THEN /\ log' = appended(receipt(i, command, DENY, r, None, None))
          /\ rec' = receipt(i, command, DENY, r, None, None)
          /\ outcome' = RunResult(DENY, i, r, 1, receipt(i, command, DENY, r, None, None))
     ELSE /\ outcome' = Raised("OSError")
          /\ UNCHANGED << log, rec >>

\* run(command, skip_confirm=sc, confirm_callback=...) is called; no direct
\* call of another operation is in progress
Start(c, sc, cb) ==
  /\ pc = "idle"
  /\ pc' = "classify"
  /\ command' = c
  /\ skip_confirm' = sc
  /\ confirm_callback' = cb
  /\ log0' = log
  /\ tokens0' = tokens
  /\ op' = None
  /\ UNCHANGED << always_block, tokens, issued, now, log, localVars, policyVars, raceVars, tamper >>

\* Step 1: intent = classifier.classify(command)
Classify ==
  /\ pc = "classify"
  /\ intent' = classify(command)
  /\ trace' = Append(trace, "classify")
  /\ pc' = "evaluate"
  /\ UNCHANGED << always_block, tokens, issued, now, log, callVars, policyVars, raceVars, opVars,
                  pol, tok, token_id, expires_at, answer, authorized, re_intent,
                  re_pol, rec, outcome, executed, completed, prompts >>

\* Step 2: pol = policy.evaluate(command, intent)
Evaluate ==
  /\ pc = "evaluate"
  /\ pol' = evaluate(command, intent)
  /\ trace' = Append(trace, "evaluate")
  /\ pc' = "gate1"
  /\ UNCHANGED << always_block, tokens, issued, now, log, callVars, policyVars, raceVars, opVars,
                  intent, tok, token_id, expires_at, answer, authorized,
                  re_intent, re_pol, rec, outcome, executed, completed, prompts >>

\* Faulty variant of Gate1: a result that requires authorization goes straight
\* to the confirmation, without the token lookup.
Gate1_skips_token_lookup ==
  /\ pc = "gate1"
  /\ IF pol.decision = DENY /\ ~pol.requires_auth
     THEN \E disk_ok \in BOOLEAN : DenyAndReturn(intent, pol.reason, disk_ok)
     ELSE /\ pc' = IF pol.requires_auth THEN "confirm" ELSE "gate3"
          /\ UNCHANGED << log, rec, outcome, trace >>
  /\ UNCHANGED << always_block, tokens, issued, now, callVars, policyVars, raceVars, opVars,
                  intent, pol, tok, token_id, expires_at, answer, authorized,
                  re_intent, re_pol, executed, completed, prompts >>

\* GATE 1: if pol.decision == DENY and not pol.requires_auth
Gate1 ==
  /\ pc = "gate1"
  /\ IF pol.decision = DENY /\ ~pol.requires_auth
     THEN \E disk_ok \in BOOLEAN : DenyAndReturn(intent, pol.reason, disk_ok)
     ELSE /\ pc' = IF pol.requires_auth THEN "gate2a" ELSE "gate3"
          /\ UNCHANGED << log, rec, outcome, trace >>
  /\ UNCHANGED << always_block, tokens, issued, now, callVars, policyVars, raceVars, opVars,
                  intent, pol, tok, token_id, expires_at, answer, authorized,
                  re_intent, re_pol, executed, completed, prompts >>

\* Faulty variant of Gate2a: the token that authorizes the run is consumed, it
\* is removed from the store.
Gate2a_consumes_token ==
  /\ pc = "gate2a"
  /\ tok' = find_valid_token(intent)
  /\ tokens' = SelectSeq(tokens, LAMBDA t : t # find_valid_token(intent))
  /\ IF find_valid_token(intent) # None
     THEN /\ token_id' = find_valid_token(intent).token_id
          /\ expires_at' = find_valid_token(intent).expires_at
          /\ trace' = Append(trace, "find_valid_token")
          /\ pc' = "gate3"
          /\ UNCHANGED << log, rec, outcome >>
     ELSE IF skip_confirm
     THEN /\ \E disk_ok \in BOOLEAN :
               /\ trace' = trace \o << "find_valid_token", "write_receipt DENY" >>
               /\ pc' = "done"
               /\ IF disk_ok
                  THEN /\ log' = appended(receipt(intent, command, DENY,
                                   << "Risky intent denied (no valid token, no interactive confirmation)." >>,
                                   None, None))
                       /\ rec' = receipt(intent, command, DENY,
                                   << "Risky intent denied (no valid token, no interactive confirmation)." >>,
                                   None, None)
                       /\ outcome' = RunResult(DENY, intent,
                                   << "Risky intent denied (no valid token, no interactive confirmation)." >>,
                                   1, rec')
                  ELSE /\ outcome' = Raised("OSError")
                       /\ UNCHANGED << log, rec >>
          /\ UNCHANGED << token_id, expires_at >>
     ELSE /\ trace' = Append(trace, "find_valid_token")
          /\ pc' = "confirm"
          /\ UNCHANGED << log, rec, outcome, token_id, expires_at >>
  /\ UNCHANGED << always_block, issued, now, callVars, policyVars, raceVars, opVars,
                  intent, pol, answer, authorized, re_intent, re_pol, executed, completed,
                  prompts >>

\* GATE 2: tok = tokens.find_valid_token(intent); elif skip_confirm: deny
Gate2a ==
  /\ pc = "gate2a"
  /\ tok' = find_valid_token(intent)
  /\ IF find_valid_token(intent) # None
     THEN /\ token_id' = find_valid_token(intent).token_id
          /\ expires_at' = find_valid_token(intent).expires_at
          /\ trace' = Append(trace, "find_valid_token")
          /\ pc' = "gate3"
          /\ UNCHANGED << log, rec, outcome >>
     ELSE IF skip_confirm
     THEN /\ \E disk_ok \in BOOLEAN :
               /\ trace' = trace \o << "find_valid_token", "write_receipt DENY" >>
               /\ pc' = "done"
               /\ IF disk_ok
                  THEN /\ log' = appended(receipt(intent, command, DENY,
                                   << "Risky intent denied (no valid token, no interactive confirmation)." >>,
                                   None, None))
                       /\ rec' = receipt(intent, command, DENY,
                                   << "Risky intent denied (no valid token, no interactive confirmation)." >>,
                                   None, None)
                       /\ outcome' = RunResult(DENY, intent,
                                   << "Risky intent denied (no valid token, no interactive confirmation)." >>,
                                   1, rec')
                  ELSE /\ outcome' = Raised("OSError")
                       /\ UNCHANGED << log, rec >>
          /\ UNCHANGED << token_id, expires_at >>
     ELSE /\ trace' = Append(trace, "find_valid_token")
          /\ pc' = "confirm"
          /\ UNCHANGED << log, rec, outcome, token_id, expires_at >>
  /\ UNCHANGED << always_block, tokens, issued, now, callVars, policyVars, raceVars, opVars,
                  intent, pol, answer, authorized, re_intent, re_pol, executed, completed,
                  prompts >>

\* Interactive confirmation: confirm_callback(intent, command) or
\* _interactive_confirm(intent, command)
Confirm ==
  /\ pc = "confirm"
  /\ prompts' = prompts + 1
  /\ trace' = Append(trace, "confirm")
  /\ \E a \in IF confirm_callback THEN CallbackAnswers ELSE StdinAnswers :
        /\ answer' = a
        /\ IF a.kind = "raised"
           THEN /\ outcome' = Raised("CallbackError")
                /\ pc' = "done"
                /\ UNCHANGED authorized
           ELSE /\ authorized' = IF confirm_callback THEN a.value
                                 ELSE interactive_confirm(a)
                /\ pc' = "gate2b"
                /\ UNCHANGED outcome
  /\ UNCHANGED << always_block, tokens, issued, now, log, callVars, policyVars, raceVars, opVars,
                  intent, pol, tok, token_id, expires_at, re_intent, re_pol,
                  rec, executed, completed >>

\* if not authorized: write a DENY receipt and return
Gate2b ==
  /\ pc = "gate2b"
  /\ IF ~authorized
     THEN \E disk_ok \in BOOLEAN :
             DenyAndReturn(intent, << "User declined interactive authorization." >>, disk_ok)
     ELSE /\ pc' = "gate3"
          /\ UNCHANGED << log, rec, outcome, trace >>
  /\ UNCHANGED << always_block, tokens, issued, now, callVars, policyVars, raceVars, opVars,
                  intent, pol, tok, token_id, expires_at, answer, authorized,
                  re_intent, re_pol, executed, completed, prompts >>

\* Faulty variant of Gate3: a block found at Gate 3 is returned as an ordinary
\* DENY result instead of being raised.
Gate3_returns_deny ==
  /\ pc = "gate3"
  /\ re_intent' = classify(command)
  /\ re_pol' = evaluate(command, classify(command))
  /\ IF re_pol'.decision = DENY /\ ~re_pol'.requires_auth
     THEN /\ trace' = trace \o << "reclassify", "write_receipt DENY" >>
          /\ pc' = "done"
          /\ \E disk_ok \in BOOLEAN :
               IF disk_ok
               THEN /\ log' = appended(receipt(re_intent', command, DENY,
                                << "Re-classification blocked", re_pol'.reason >>,
                                None, None))
                    /\ rec' = receipt(re_intent', command, DENY,
                                << "Re-classification blocked", re_pol'.reason >>,
                                None, None)
                    /\ outcome' = RunResult(DENY, re_intent', re_pol'.reason, 1, rec')
               ELSE /\ outcome' = Raised("OSError")
                    /\ UNCHANGED << log, rec >>
     ELSE /\ trace' = Append(trace, "reclassify")
          /\ pc' = "gate4"
          /\ UNCHANGED << log, rec, outcome >>
  /\ UNCHANGED << always_block, tokens, issued, now, callVars, policyVars, raceVars, opVars,
                  intent, pol, tok, token_id, expires_at, answer, authorized,
                  executed, completed, prompts >>

\* Faulty variant of Gate3: any DENY of the second evaluation is taken for a
\* block, a risky intent that was authorized at Gate 2 included.
Gate3_blocks_risky ==
  /\ pc = "gate3"
  /\ re_intent' = classify(command)
  /\ re_pol' = evaluate(command, classify(command))
  /\ IF re_pol'.decision = DENY
     THEN /\ trace' = trace \o << "reclassify", "write_receipt DENY" >>
          /\ pc' = "done"
          /\ \E disk_ok \in BOOLEAN :
               IF disk_ok
               THEN /\ log' = appended(receipt(re_intent', command, DENY,
                                << "Re-classification blocked", re_pol'.reason >>,
                                None, None))
                    /\ rec' = receipt(re_intent', command, DENY,
                                << "Re-classification blocked", re_pol'.reason >>,
                                None, None)
                    /\ outcome' = Raised("ExecutionBlocked")
               ELSE /\ outcome' = Raised("OSError")
                    /\ UNCHANGED << log, rec >>
     ELSE /\ trace' = Append(trace, "reclassify")
          /\ pc' = "gate4"
          /\ UNCHANGED << log, rec, outcome >>
  /\ UNCHANGED << always_block, tokens, issued, now, callVars, policyVars, raceVars, opVars,
                  intent, pol, tok, token_id, expires_at, answer, authorized,
                  executed, completed, prompts >>

\* GATE 3: re_intent, re_pol; a block now writes a DENY receipt and raises
Gate3 ==
  /\ pc = "gate3"
  /\ re_intent' = classify(command)
  /\ re_pol' = evaluate(command, classify(command))
  /\ IF re_pol'.decision = DENY /\ ~re_pol'.requires_auth
     THEN /\ trace' = trace \o << "reclassify", "write_receipt DENY" >>
          /\ pc' = "done"
          /\ \E disk_ok \in BOOLEAN :
               IF disk_ok
               THEN /\ log' = appended(receipt(re_intent', command, DENY,
                                << "Re-classification blocked", re_pol'.reason >>,
                                None, None))
                    /\ rec' = receipt(re_intent', command, DENY,
                                << "Re-classification blocked", re_pol'.reason >>,
                                None, None)
                    /\ outcome' = Raised("ExecutionBlocked")
               ELSE /\ outcome' = Raised("OSError")
                    /\ UNCHANGED << log, rec >>
     ELSE /\ trace' = Append(trace, "reclassify")
          /\ pc' = "gate4"
          /\ UNCHANGED << log, rec, outcome >>
  /\ UNCHANGED << always_block, tokens, issued, now, callVars, policyVars, raceVars, opVars,
                  intent, pol, tok, token_id, expires_at, answer, authorized,
                  executed, completed, prompts >>

\* Faulty variant of Gate4: a failure to write the ALLOW receipt is swallowed
\* and the command is executed all the same.
Gate4_ignores_write_failure ==
  /\ pc = "gate4"
  /\ trace' = Append(trace, "write_receipt ALLOW")
  /\ \E disk_ok \in BOOLEAN :
        IF disk_ok
        THEN /\ log' = appended(receipt(intent, command, ALLOW,
                         IF pol.decision = ALLOW THEN pol.reason
                         ELSE << "Authorized (token or interactive)." >>,
                         token_id, expires_at))
             /\ rec' = receipt(intent, command, ALLOW,
                         IF pol.decision = ALLOW THEN pol.reason
                         ELSE << "Authorized (token or interactive)." >>,
                         token_id, expires_at)
        ELSE UNCHANGED << log, rec >>
  /\ pc' = "execute"
  /\ UNCHANGED << always_block, tokens, issued, now, callVars, policyVars, raceVars, opVars,
                  intent, pol, tok, token_id, expires_at, answer, authorized,
                  re_intent, re_pol, executed, completed, prompts, outcome >>

\* GATE 4: rec = receipts.write_receipt(..., decision="ALLOW", ...)
Gate4 ==
  /\ pc = "gate4"
  /\ trace' = Append(trace, "write_receipt ALLOW")
  /\ \E disk_ok \in BOOLEAN :
        IF disk_ok
        THEN /\ log' = appended(receipt(intent, command, ALLOW,
                         IF pol.decision = ALLOW THEN pol.reason
                         ELSE << "Authorized (token or interactive)." >>,
                         token_id, expires_at))
             /\ rec' = receipt(intent, command, ALLOW,
                         IF pol.decision = ALLOW THEN pol.reason
                         ELSE << "Authorized (token or interactive)." >>,
                         token_id, expires_at)
             /\ pc' = "execute"
             /\ UNCHANGED outcome
        ELSE /\ outcome' = Raised("OSError")
             /\ pc' = "done"
             /\ UNCHANGED << log, rec >>
  /\ UNCHANGED << always_block, tokens, issued, now, callVars, policyVars, raceVars, opVars,
                  intent, pol, tok, token_id, expires_at, answer, authorized,
                  re_intent, re_pol, executed, completed, prompts >>

\* exit_code, output = _execute_command(command); return RunResult(ALLOW, ...)
Execute ==
  /\ pc = "execute"
  /\ executed' = Append(executed, command)
  /\ trace' = Append(trace, "execute")
  /\ \E result \in SubprocessOutcomes :
        /\ completed' = result
        /\ outcome' = RunResult(ALLOW, intent,
                         IF execute_command(result) = 0
                         THEN << "Executed successfully." >>
                         ELSE << "Command exited with code", execute_command(result) >>,
                         execute_command(result), rec)
  /\ pc' = "done"
  /\ UNCHANGED << always_block, tokens, issued, now, log, callVars, policyVars, raceVars, opVars,
                  intent, pol, tok, token_id, expires_at, answer, authorized,
                  re_intent, re_pol, rec, prompts >>

\* ------------------------------------------------------------------------
\* cli.py
\* ------------------------------------------------------------------------
\* the exit status of `guardian run`: cmd_run raises typer.Exit(code=1) on a
\* DENY result and typer.Exit(code=result.exit_code) otherwise; it has no
\* try/except, so an exception that leaves run() ends the process as an
\* uncaught exception, with the interpreter's exit status 1
cmd_run(result) ==
  IF result.kind = "raised" THEN 1
  ELSE IF result.decision = DENY THEN 1
  ELSE result.exit_code

\* ------------------------------------------------------------------------
\* What happens between invocations of run()
\* ------------------------------------------------------------------------
TokenIntents == { FILE_DELETE, PROCESS_KILL }
TTLs == { 0, 1 }

\* a direct call of an operation: its name, arguments and result, and the
\* log, the token store and the clock it found
Call(name, args, result) ==
  [name |-> name, args |-> args, result |-> result, log |-> log,
   tokens |-> tokens, now |-> now]

\* tokens.issue_token(intent, ttl)
IssueToken(i, ttl) ==
  /\ pc = "idle"
  /\ Len(tokens) < MaxTokens
  /\ issued < MaxIssued
  /\ issued' = issued + 1
  /\ tokens' = Append(tokens, TokenRecord(uuid4(issued + 1), i, now, ttl))
  /\ UNCHANGED << always_block, now, log, pc, callVars, localVars, policyVars, raceVars, opVars >>

\* tokens.prune_expired()
PruneExpired ==
  /\ pc = "idle"
  /\ tokens' = KeptFrom(tokens, now, 1)
  /\ op' = Call("prune_expired", << >>, Returns(RemovedFrom(tokens, now, 1)))
  /\ UNCHANGED << always_block, issued, now, log, pc, callVars, localVars,
                  policyVars, raceVars, tamper >>

\* the intents find_valid_token is called with directly
LookupIntents == TokenIntents \cup { SYSTEM_CONFIG }

\* tokens.find_valid_token(intent)
FindValidToken(i) ==
  /\ pc = "idle"
  /\ op' = Call("find_valid_token", << i >>, find_valid_token(i))
  /\ UNCHANGED << always_block, tokens, issued, now, log, pc, callVars, localVars,
                  policyVars, raceVars, tamper >>

\* a second passes
Tick ==
  /\ pc = "idle"
  /\ now < MaxTime
  /\ now' = now + 1
  /\ UNCHANGED << always_block, tokens, issued, log, pc, callVars, localVars, policyVars, raceVars, opVars >>

RECURSIVE Total(_, _)
Total(l, d) == IF d \notin DOMAIN l THEN 0 ELSE Len(l[d]) + Total(l, d + 1)

\* receipts.write_receipt called by an earlier invocation
EarlierReceipt ==
  /\ pc = "idle"
  /\ Total(log, 0) < MaxPrior
  /\ log' = appended(receipt(SAFE_ECHO, Cmd(<< "echo", "x" >>, FALSE), ALLOW,
                             << "Command allowed by policy." >>, None, None))
  /\ UNCHANGED << always_block, tokens, issued, now, pc, callVars, localVars, policyVars, raceVars, opVars >>

\* the arguments of the direct calls of write_receipt
LogInputs ==
  { << SHELL_RUN, Cmd(<< "x" >>, FALSE), ALLOW >>,
    << FILE_DELETE, Cmd(<< "rm", "x" >>, FALSE), DENY >>,
    << SHELL_RUN, Cmd(<< "a<U+2028>b" >>, FALSE), ALLOW >> }

\* receipts.write_receipt(intent=i, command=c, decision=d, reason=...)
WriteReceipt(i, c, d) ==
  /\ pc = "idle"
  /\ tamper = None
  /\ Total(log, 0) < MaxWrites
  /\ IF last_hash_raises(today_file)
     THEN /\ op' = Call("write_receipt", << i, c, d >>,
                        [kind |-> "raised", exception |-> "JSONDecodeError"])
          /\ UNCHANGED log
     ELSE /\ log' = appended(receipt(i, c, d, << "reason" >>, None, None))
          /\ op' = Call("write_receipt", << i, c, d >>,
                        Returns(receipt(i, c, d, << "reason" >>, None, None)))
  /\ UNCHANGED << always_block, tokens, issued, now, pc, callVars, localVars,
                  policyVars, raceVars, tamper >>

\* receipts.read_receipts(filepath)
ReadReceipts(filepath) ==
  /\ pc = "idle"
  /\ op' = Call("read_receipts", << filepath >>, read_receipts(filepath))
  /\ UNCHANGED << always_block, tokens, issued, now, log, pc, callVars, localVars,
                  policyVars, raceVars, tamper >>

\* receipts.tail_receipts(n)
TailReceipts(n) ==
  /\ pc = "idle"
  /\ op' = Call("tail_receipts", << n >>, tail_receipts(n))
  /\ UNCHANGED << always_block, tokens, issued, now, log, pc, callVars, localVars,
                  policyVars, raceVars, tamper >>

\* verify.verify_chain()
VerifyChain ==
  /\ pc = "idle"
  /\ op' = Call("verify_chain", << >>, verify_chain)
  /\ UNCHANGED << always_block, tokens, issued, now, log, pc, callVars, localVars,
                  policyVars, raceVars, tamper >>

\* the hashes stored in the log
StoredHashes ==
  UNION { UNION { { log[f][k].hash, log[f][k].prev_hash } : k \in 1..Len(log[f]) } :
          f \in Days }

\* the values an edit from outside can give to a field of a stored record
TamperValues(field) ==
  CASE field = "ts" -> { isoformat(MaxTime + 1) }
    [] field = "intent" -> { "tampered" }
    [] field = "command" ->
         { Cmd(<< "tampered" >>, FALSE), Cmd(<< "a<U+2028>b" >>, FALSE) }
    [] field = "decision" -> { ALLOW, DENY }
    [] field = "reason" -> { << "tampered" >> }
    [] field = "token_id" -> { uuid4(0) }
    [] field = "expires_at" -> { isoformat(0) }
    [] field \in { "prev_hash", "hash" } ->
         { GENESIS_HASH, sha256(<< "tampered" >>) } \cup StoredHashes

ReceiptFields ==
  { "ts", "intent", "command", "decision", "reason", "token_id", "expires_at",
    "prev_hash", "hash" }

\* the number of records in the day files before filepath
RECURSIVE RecordsBefore(_)
RecordsBefore(filepath) ==
  IF filepath = 0 THEN 0
  ELSE Len(log[filepath - 1]) + RecordsBefore(filepath - 1)

\* somebody edits one field of one stored record (not an operation of the
\* program: what the verifier exists to detect)
Tamper(filepath, k, field, v) ==
  /\ pc = "idle"
  /\ tamper = None
  /\ k \in 1..Len(log[filepath])
  /\ log[filepath][k][field] # v
  /\ log' = [log EXCEPT ![filepath][k][field] = v]
  /\ tamper' = [index |-> RecordsBefore(filepath) + k - 1, field |-> field,
                log |-> log]
  /\ op' = None
  /\ UNCHANGED << always_block, tokens, issued, now, pc, callVars, localVars,
                  policyVars, raceVars >>

\* the last k records of a day-file are removed from outside; with k the
\* length of the file, the file is deleted
DeleteRecords(filepath, k) ==
  /\ pc = "idle"
  /\ tamper = None
  /\ k \in 1..Len(log[filepath])
  /\ log' = [log EXCEPT ![filepath] = SubSeq(@, 1, Len(@) - k)]
  /\ tamper' = [file |-> filepath, deleted |-> k, log |-> log, before |-> verify_chain]
  /\ op' = None
  /\ UNCHANGED << always_block, tokens, issued, now, pc, callVars, localVars,
                  policyVars, raceVars >>

\* policy._ALWAYS_BLOCK is a module-level list: code that runs in the
\* process while run() is in progress can add a rule to it
PolicyMutated ==
  /\ pc \notin { "idle", "done" }
  /\ always_block = ALWAYS_BLOCK
  /\ always_block' = Append(always_block, ExtraRule)
  /\ UNCHANGED << tokens, issued, now, log, pc, callVars, localVars, policyVars, raceVars, opVars >>

\* policy.evaluate(command, intent) called directly
PolicyCall(c, i) ==
  /\ pc = "idle"
  /\ p_command = None
  /\ p_command' = c
  /\ p_intent' = i
  /\ p_result' = evaluate(c, i)
  /\ UNCHANGED << always_block, tokens, issued, now, log, pc, callVars, localVars,
                  opVars, raceVars >>

\* ------------------------------------------------------------------------
\* The token store and the receipt log used by processes step by step
\* ------------------------------------------------------------------------
Procs == { 1, 2 }

\* a process that is in no call
IdleProc == [pc |-> "idle", call |-> None, loaded |-> << >>, ret |-> None]

\* process p is between the first and the last step of a call
MidCall(p) == procs[p].pc \in { "load", "open", "write", "append" }

\* a call starts while another process is in the middle of one
Overlaps(p) == \E q \in Procs \ { p } : MidCall(q)

\* _load_tokens(): json.loads of the bytes of tokens.json
load_tokens ==
  IF tokens_ok THEN Returns(tokens)
  ELSE [kind |-> "raised", exception |-> "JSONDecodeError"]

\* Faulty variant of ToSave: issue_token saves the list it loaded, without
\* the new record.
ToSave_without_record(call, stored) ==
  IF call.name = "issue_token" THEN stored ELSE KeptFrom(stored, call.now, 1)

\* the list a mutation hands to _save_tokens: tokens.append(record) in
\* issue_token, kept in prune_expired
ToSave(call, stored) ==
  IF call.name = "issue_token" THEN Append(stored, call.record)
  ELSE KeptFrom(stored, call.now, 1)

\* issue_token up to the record it builds: now, token_id, record
IssueStart(p, i, ttl) ==
  /\ procs[p].pc = "idle"
  /\ issued < MaxIssued
  /\ issued' = issued + 1
  /\ procs' = [procs EXCEPT ![p] =
                 [pc |-> "load",
                  call |-> [name |-> "issue_token",
                            record |-> TokenRecord(uuid4(issued + 1), i, now, ttl)],
                  loaded |-> << >>, ret |-> None]]
  /\ hist' = [hist EXCEPT !.raced = @ \/ Overlaps(p)]
  /\ UNCHANGED << always_block, tokens, now, log, pc, callVars, localVars,
                  policyVars, opVars, tokens_ok >>

\* prune_expired up to reading the clock
PruneStart(p) ==
  /\ procs[p].pc = "idle"
  /\ procs' = [procs EXCEPT ![p] =
                 [pc |-> "load", call |-> [name |-> "prune_expired", now |-> now],
                  loaded |-> << >>, ret |-> None]]
  /\ hist' = [hist EXCEPT !.raced = @ \/ Overlaps(p)]
  /\ UNCHANGED << always_block, tokens, issued, now, log, pc, callVars, localVars,
                  policyVars, opVars, tokens_ok >>

\* tokens = _load_tokens(); json.loads raises when the bytes are no document
LoadTokens(p) ==
  /\ procs[p].pc = "load"
  /\ procs' = [procs EXCEPT ![p] =
                 IF tokens_ok
                 THEN [@ EXCEPT !.pc = "open", !.loaded = tokens]
                 ELSE [@ EXCEPT !.pc = "done", !.ret = load_tokens]]
  /\ UNCHANGED << always_block, tokens, issued, now, log, pc, callVars, localVars,
                  policyVars, opVars, tokens_ok, hist >>

\* _save_tokens, first half: write_text opens TOKENS_FILE for writing, which
\* truncates it to no bytes
SaveOpen(p) ==
  /\ procs[p].pc = "open"
  /\ tokens' = << >>
  /\ tokens_ok' = FALSE
  /\ procs' = [procs EXCEPT ![p].pc = "write"]
  /\ UNCHANGED << always_block, issued, now, log, pc, callVars, localVars,
                  policyVars, opVars, hist >>

\* what the call returns: the record of issue_token, the count of prune_expired
CallReturns(call, stored) ==
  IF call.name = "issue_token" THEN Returns(call.record)
  ELSE Returns(RemovedFrom(stored, call.now, 1))

\* _save_tokens, second half: the JSON text is written from offset 0 and the
\* file is closed; bytes that another process wrote past the end of this text
\* stay in the file and make it no document; then the call returns
SaveWrite(p) ==
  /\ procs[p].pc = "write"
  /\ tokens' = ToSave(procs[p].call, procs[p].loaded)
  /\ tokens_ok' = (Len(ToSave(procs[p].call, procs[p].loaded)) >= Len(tokens))
  /\ procs' = [procs EXCEPT ![p].pc = "done",
                            ![p].ret = CallReturns(procs[p].call, procs[p].loaded)]
  /\ hist' = IF procs[p].call.name = "issue_token"
             THEN [hist EXCEPT !.returned = @ \cup { procs[p].call.record }]
             ELSE hist
  /\ UNCHANGED << always_block, issued, now, log, pc, callVars, localVars,
                  policyVars, opVars >>

\* the process dies inside write_text after the truncation, with the first k
\* records of the text written
Crash(p, k) ==
  /\ procs[p].pc = "write"
  /\ k < Len(ToSave(procs[p].call, procs[p].loaded)) \/ k = 0
  /\ tokens' = SubSeq(ToSave(procs[p].call, procs[p].loaded), 1, k)
  /\ tokens_ok' = FALSE
  /\ procs' = [procs EXCEPT ![p].pc = "crashed"]
  /\ UNCHANGED << always_block, issued, now, log, pc, callVars, localVars,
                  policyVars, opVars, hist >>

\* the caller goes on; a process that died is started again
Return(p) ==
  /\ procs[p].pc \in { "done", "crashed" }
  /\ procs' = [procs EXCEPT ![p] = IdleProc]
  /\ UNCHANGED << always_block, tokens, issued, now, log, pc, callVars, localVars,
                  policyVars, opVars, tokens_ok, hist >>

\* another process reads the token store: _load_tokens()
ReadStore ==
  /\ op' = Call("load_tokens", << >>, load_tokens)
  /\ UNCHANGED << always_block, tokens, issued, now, log, pc, callVars, localVars,
                  policyVars, tamper, raceVars >>

\* the clock advances, whatever the processes are doing
TimePasses ==
  /\ now < MaxTime
  /\ now' = now + 1
  /\ UNCHANGED << always_block, tokens, issued, log, pc, callVars, localVars,
                  policyVars, opVars, raceVars >>

\* the arguments of the calls of write_receipt made by racing processes
RaceInputs ==
  { << SHELL_RUN, Cmd(<< "x" >>, FALSE), ALLOW >>,
    << FILE_DELETE, Cmd(<< "rm", "x" >>, FALSE), DENY >> }

\* the receipts appended and about to be appended
Pending == Cardinality({ p \in Procs : procs[p].pc = "append" })

\* write_receipt up to the record it builds: filepath = _today_file(),
\* prev = _last_hash(filepath), record with ts, prev_hash and hash
ReceiptRead(p, i, c, d) ==
  /\ procs[p].pc = "idle"
  /\ Total(log, 0) + Pending < MaxWrites
  /\ procs' = [procs EXCEPT ![p] =
                 [pc |-> "append",
                  call |-> [name |-> "write_receipt", filepath |-> today_file,
                            record |-> receipt(i, c, d, << "reason" >>, None, None)],
                  loaded |-> << >>, ret |-> None]]
  /\ hist' = [hist EXCEPT !.raced = @ \/ Overlaps(p)]
  /\ UNCHANGED << always_block, tokens, issued, now, log, pc, callVars, localVars,
                  policyVars, opVars, tokens_ok >>

\* write_receipt: the line is appended to filepath and the record returned
ReceiptAppend(p) ==
  /\ procs[p].pc = "append"
  /\ log' = [log EXCEPT ![procs[p].call.filepath] = Append(@, procs[p].call.record)]
  /\ procs' = [procs EXCEPT ![p].pc = "done",
                            ![p].ret = Returns(procs[p].call.record)]
  /\ UNCHANGED << always_block, tokens, issued, now, pc, callVars, localVars,
                  policyVars, opVars, tokens_ok, hist >>

\* the arguments of the repeated calls of classify and evaluate
PureCommands ==
  { Cmd(<< "rm", "-rf", "/" >>, FALSE),
    Cmd(<< "rm", "-rf", "x" >>, FALSE),
    Cmd(<< "sudo", "mkfs" >>, FALSE),
    Cmd(<< "kill" >>, TRUE),
    Cmd(<< "echo", "x", ";", "rm", "x" >>, FALSE),
    Cmd(<< "x" >>, FALSE) }
PureIntents == { FILE_DELETE, PROCESS_KILL, SHELL_RUN, "unknown" }

\* classifier.classify(command) called directly
ClassifyCall(c) ==
  /\ pc = "idle"
  /\ op' = Call("classify", << c >>, [intent |-> classify(c)])
  /\ UNCHANGED << always_block, tokens, issued, now, log, pc, callVars, localVars,
                  policyVars, raceVars, tamper >>

\* policy.evaluate(command, intent) called directly, any number of times
EvaluateCall(c, i) ==
  /\ pc = "idle"
  /\ op' = Call("evaluate", << c, i >>, evaluate(c, i))
  /\ UNCHANGED << always_block, tokens, issued, now, log, pc, callVars, localVars,
                  policyVars, raceVars, tamper >>

\* ------------------------------------------------------------------------
\* Specifications
\* ------------------------------------------------------------------------
Init ==
  /\ always_block = ALWAYS_BLOCK
  /\ tokens = << >>
  /\ issued = 0
  /\ now = 0
  /\ log = [d \in Days |-> << >>]
  /\ pc = "idle"
  /\ command = None
  /\ skip_confirm = FALSE
  /\ confirm_callback = FALSE
  /\ intent = NoText
  /\ pol = None
  /\ tok = None
  /\ token_id = None
  /\ expires_at = None
  /\ answer = None
  /\ authorized = FALSE
  /\ re_intent = NoText
  /\ re_pol = None
  /\ rec = None
  /\ outcome = None
  /\ trace = << >>
  /\ executed = << >>
  /\ prompts = 0
  /\ log0 = [d \in Days |-> << >>]
  /\ tokens0 = << >>
  /\ p_command = None
  /\ p_intent = NoText
  /\ p_result = None
  /\ completed = None
  /\ tamper = None
  /\ op = None
  /\ tokens_ok = TRUE
  /\ procs = [p \in Procs |-> IdleProc]
  /\ hist = [raced |-> FALSE, returned |-> { }]

Next ==
  \/ \E i \in TokenIntents, ttl \in TTLs : IssueToken(i, ttl)
  \/ Tick
  \/ EarlierReceipt
  \/ \E c \in RunCommands, sc \in BOOLEAN, cb \in BOOLEAN : Start(c, sc, cb)
  \/ Classify
  \/ Evaluate
  \/ Gate1
  \/ Gate2a
  \/ Confirm
  \/ Gate2b
  \/ Gate3
  \/ Gate4
  \/ Execute

\* one invocation of run() in any state of the token store, the clock and
\* the log that issuing tokens, waiting and earlier writes can produce
Spec == Init /\ [][Next]_vars

\* the same, with the block rules changing while run() is in progress
NextTamper == Next \/ PolicyMutated
SpecTamper == Init /\ [][NextTamper]_vars

\* the receipt log used directly: appends at any time of any day, reads, tails
\* and verifications
NextLog ==
  \/ \E a \in LogInputs : WriteReceipt(a[1], a[2], a[3])
  \/ Tick
  \/ \E f \in Days : ReadReceipts(f)
  \/ \E n \in 0..MaxTail : TailReceipts(n)
  \/ VerifyChain
SpecLog == Init /\ [][NextLog]_vars

\* a log written by write_receipt, then edited once from outside, then verified
NextVerify ==
  \/ \E a \in LogInputs : WriteReceipt(a[1], a[2], a[3])
  \/ Tick
  \/ \E f \in Days, k \in 1..MaxWrites, field \in ReceiptFields :
       \E v \in TamperValues(field) : Tamper(f, k, field, v)
  \/ VerifyChain
SpecVerify == Init /\ [][NextVerify]_vars

\* the token store used directly: issues, lookups and prunes at any instants
NextTokens ==
  \/ \E i \in TokenIntents, ttl \in TTLs : IssueToken(i, ttl)
  \/ Tick
  \/ \E i \in LookupIntents : FindValidToken(i)
  \/ PruneExpired
SpecTokens == Init /\ [][NextTokens]_vars

\* the commands run() is called with between the direct calls: a blocked
\* one, a risky one and a safe one
OpsCommands ==
  { Cmd(<< "rm", "-rf", "/" >>, FALSE),
    Cmd(<< "rm", "-rf", "x" >>, FALSE),
    Cmd(<< "echo", "x" >>, FALSE) }

\* the arguments of the direct calls of write_receipt between runs
OpsInputs ==
  { << SHELL_RUN, Cmd(<< "x" >>, FALSE), ALLOW >>,
    << SHELL_RUN, Cmd(<< "a<U+2028>b" >>, FALSE), ALLOW >> }

\* every operation of the system: run() step by step, and between runs the
\* direct calls of the receipt log and of the token store
NextOps ==
  \/ \E i \in TokenIntents, ttl \in TTLs : IssueToken(i, ttl)
  \/ Tick
  \/ \E c \in OpsCommands, sc \in BOOLEAN, cb \in BOOLEAN : Start(c, sc, cb)
  \/ Classify
  \/ Evaluate
  \/ Gate1
  \/ Gate2a
  \/ Confirm
  \/ Gate2b
  \/ Gate3
  \/ Gate4
  \/ Execute
  \/ \E a \in OpsInputs : WriteReceipt(a[1], a[2], a[3])
  \/ \E f \in Days : ReadReceipts(f)
  \/ \E n \in 0..MaxTail : TailReceipts(n)
  \/ VerifyChain
  \/ \E i \in LookupIntents : FindValidToken(i)
  \/ PruneExpired
SpecOps == Init /\ [][NextOps]_vars

\* classify and evaluate called again and again while tokens are issued, time
\* passes and receipts are written
NextPure ==
  \/ \E i \in TokenIntents, ttl \in TTLs : IssueToken(i, ttl)
  \/ Tick
  \/ EarlierReceipt
  \/ \E c \in PureCommands : ClassifyCall(c)
  \/ \E c \in PureCommands, i \in PureIntents : EvaluateCall(c, i)
SpecPure == Init /\ [][NextPure]_vars

\* one process mutating the token store step by step, dying or not inside the
\* write, and a reader of the file at any point
NextSave ==
  \/ \E i \in TokenIntents, ttl \in TTLs : IssueStart(1, i, ttl)
  \/ PruneStart(1)
  \/ LoadTokens(1)
  \/ SaveOpen(1)
  \/ SaveWrite(1)
  \/ \E k \in 0..MaxTokens : Crash(1, k)
  \/ Return(1)
  \/ TimePasses
  \/ ReadStore
SpecSave == Init /\ [][NextSave]_vars

\* two processes appending receipts step by step, with no lock between them,
\* and verifications of the log
NextRaceLog ==
  \/ \E p \in Procs, a \in RaceInputs : ReceiptRead(p, a[1], a[2], a[3])
  \/ \E p \in Procs : ReceiptAppend(p)
  \/ \E p \in Procs : Return(p)
  \/ TimePasses
  \/ VerifyChain
SpecRaceLog == Init /\ [][NextRaceLog]_vars

\* no process is inside a call of the token store or of the receipt log
Quiescent == \A p \in Procs : ~MidCall(p)

\* two processes issuing and pruning tokens step by step, with no lock between
\* them, and afterwards one non-interactive run() of a risky command
NextRaceTokens ==
  \/ \E p \in Procs, ttl \in TTLs : pc = "idle" /\ IssueStart(p, FILE_DELETE, ttl)
  \/ \E p \in Procs : pc = "idle" /\ PruneStart(p)
  \/ \E p \in Procs : pc = "idle" /\ LoadTokens(p)
  \/ \E p \in Procs : pc = "idle" /\ SaveOpen(p)
  \/ \E p \in Procs : pc = "idle" /\ SaveWrite(p)
  \/ \E p \in Procs : pc = "idle" /\ Return(p)
  \/ pc = "idle" /\ TimePasses
  \/ Quiescent /\ tokens_ok /\ Start(Cmd(<< "rm", "-rf", "x" >>, FALSE), TRUE, FALSE)
  \/ Classify
  \/ Evaluate
  \/ Gate1
  \/ Gate2a
  \/ Gate3
  \/ Gate4
  \/ Execute
SpecRaceTokens == Init /\ [][NextRaceTokens]_vars

\* receipts written on any day, then records deleted from the end of one
\* day-file from outside, then verifications
NextDelete ==
  \/ \E a \in LogInputs : WriteReceipt(a[1], a[2], a[3])
  \/ Tick
  \/ \E f \in Days, k \in 1..MaxWrites : DeleteRecords(f, k)
  \/ VerifyChain
SpecDelete == Init /\ [][NextDelete]_vars

\* one direct call of classify on every command
NextClassify ==
  /\ op = None
  /\ \E c \in Commands : ClassifyCall(c)
SpecClassify == Init /\ [][NextClassify]_vars

\* direct calls of evaluate on every command and intent
NextPolicy ==
  /\ p_command = None
  /\ \E c \in Commands, i \in IntentArgs : PolicyCall(c, i)
SpecPolicy == Init /\ [][NextPolicy]_vars

\* ------------------------------------------------------------------------
\* Properties
\* ------------------------------------------------------------------------
\* the command matches one of the nine always-block patterns of policy.py
Blocked(c) == \E n \in 1..9 : BlockMatches(n, c)

\* the four intents that need authorization
Risky(i) ==
  i \in { "file_delete", "privilege_escalation", "process_kill", "system_config" }

\* run() returned a RunResult with this decision and exit code
Returned(d, code) ==
  /\ outcome.kind = "returned"
  /\ outcome.decision = d
  /\ outcome.exit_code = code

\* run() was ended by write_receipt raising: nothing was appended
WriteFailed == outcome = Raised("OSError") /\ log = log0

\* token k of the store is for intent i and expires strictly after instant t
ValidAt(k, i, t) == tokens[k].intent = i /\ tokens[k].expires_at.iso8601 > t

HasValidToken(i) == \E k \in 1..Len(tokens) : ValidAt(k, i, now)

\* since run() started, exactly one receipt was appended, to today's file,
\* nothing else in the log changed, and the receipt is for this command with
\* decision d
OneReceipt(d) ==
  /\ \A f \in Days : f # today_file => log[f] = log0[f]
  /\ Len(log[today_file]) = Len(log0[today_file]) + 1
  /\ SubSeq(log[today_file], 1, Len(log0[today_file])) = log0[today_file]
  /\ log[today_file][Len(log[today_file])].decision = d
  /\ log[today_file][Len(log[today_file])].command = command
  /\ rec = log[today_file][Len(log[today_file])]

\* C1: a command that matches an always-block pattern is never handed to the
\* execution collaborator, whatever skip_confirm, the confirm callback and the
\* token store are, and its run ends as a DENY with exit code 1 (or, when the
\* receipt cannot be written, with the write error and nothing executed).
BlockedNeverExecutes ==
  (pc # "idle" /\ Blocked(command)) =>
     /\ executed = << >>
     /\ prompts = 0
     /\ pc = "done" => (WriteFailed \/ (Returned(DENY, 1) /\ OneReceipt(DENY)))

BlockedDeniedDespiteToken ==
  /\ pc = "done"
  /\ Blocked(command)
  /\ Risky(intent)
  /\ HasValidToken(intent)
  /\ ~skip_confirm
  /\ confirm_callback
  /\ Returned(DENY, 1)

\* C2: the execution collaborator is invoked only after an ALLOW receipt for
\* the same command has been appended to the log, and when writing that
\* receipt fails the run ends with the error and nothing is executed.
AllowReceiptBeforeExecute ==
  /\ (pc = "execute" \/ executed # << >>) =>
        /\ OneReceipt(ALLOW)
        /\ rec.command = command
        /\ rec.decision = ALLOW
  /\ (pc = "done" /\ trace # << >> /\ trace[Len(trace)] = "write_receipt ALLOW") =>
        /\ outcome = Raised("OSError")
        /\ executed = << >>
        /\ log = log0

ExecutedAfterAllowReceipt ==
  /\ pc = "done"
  /\ executed = << command >>
  /\ OneReceipt(ALLOW)
  /\ Len(log0[today_file]) = 1

\* C3 (as stated): every run that terminates has appended exactly one receipt,
\* an ALLOW receipt if the command was executed and a DENY receipt otherwise;
\* the only run that appends nothing is one whose receipt write itself failed.
OneReceiptPerRun ==
  (pc = "done" /\ ~WriteFailed) =>
     IF executed # << >> THEN OneReceipt(ALLOW) ELSE OneReceipt(DENY)

RunEndedWithoutReceipt ==
  /\ pc = "done"
  /\ outcome.kind = "raised"
  /\ outcome.exception = "CallbackError"
  /\ Total(log, 0) = Total(log0, 0)
  /\ rec = None

\* C4: with skip_confirm set, a command of risky intent for which the store
\* holds no unexpired token of that intent is denied without any prompt: no
\* confirmation is asked, nothing is executed, and the run returns DENY with
\* exit code 1 after appending one DENY receipt (or ends with the write error).
SkipConfirmDeniesWithoutPrompt ==
  (pc # "idle" /\ Risky(classify(command)) /\ skip_confirm
     /\ ~HasValidToken(classify(command))) =>
     /\ prompts = 0
     /\ executed = << >>
     /\ pc = "done" => (WriteFailed \/ (Returned(DENY, 1) /\ OneReceipt(DENY)))

SkipConfirmDeniedUnblocked ==
  /\ pc = "done"
  /\ ~Blocked(command)
  /\ Risky(intent)
  /\ skip_confirm
  /\ Len(tokens) = 2
  /\ \E k \in 1..2 : tokens[k].intent = intent /\ ~ValidAt(k, intent, now)
  /\ \E k \in 1..2 : tokens[k].intent # intent /\ tokens[k].expires_at.iso8601 > now
  /\ Returned(DENY, 1)
  /\ OneReceipt(DENY)

\* C5: a risky, unblocked command whose intent has an unexpired token in the
\* store is executed without any prompt, and the ALLOW receipt written before
\* the execution carries the token id and the expiry of the first such token
\* in store order (a failed receipt write ends the run instead).
FirstValidToken(i) ==
  CHOOSE k \in 1..Len(tokens) :
    ValidAt(k, i, now) /\ \A j \in 1..(k - 1) : ~ValidAt(j, i, now)

TokenAuthorizesWithoutPrompt ==
  (pc # "idle" /\ Risky(classify(command)) /\ ~Blocked(command)
     /\ HasValidToken(classify(command))) =>
     /\ prompts = 0
     /\ pc = "done" =>
          \/ WriteFailed
          \/ /\ executed = << command >>
             /\ OneReceipt(ALLOW)
             /\ outcome.kind = "returned"
             /\ outcome.decision = ALLOW
             /\ rec.token_id = tokens[FirstValidToken(classify(command))].token_id
             /\ rec.expires_at = tokens[FirstValidToken(classify(command))].expires_at

SecondTokenAuthorized ==
  /\ pc = "done"
  /\ executed = << command >>
  /\ ~skip_confirm
  /\ Len(tokens) = 2
  /\ tokens[1].intent = intent
  /\ ~ValidAt(1, intent, now)
  /\ ValidAt(2, intent, now)
  /\ rec.token_id = tokens[2].token_id
  /\ prompts = 0

\* the confirmation collaborator was asked and answered (it did not fail)
Answered == answer # None /\ answer.kind \in { "line", "returned" }

\* the typed line is ALLOW with any number of blanks before and after it
AllowAfterStripping(line) ==
  \E k \in 1..Len(line) :
    line[k] = "ALLOW" /\ \A j \in 1..Len(line) : j # k => line[j] = " "

DeniedWithReceipt ==
  /\ executed = << >>
  /\ WriteFailed \/ (Returned(DENY, 1) /\ OneReceipt(DENY))

\* C6 (as stated): in interactive mode a risky command without a valid token
\* is executed only when the callback returns true or the typed line is
\* exactly ALLOW; on any other answer the run is a DENY with exit code 1, one
\* DENY receipt and no execution.
ExactAllowOnly ==
  (pc = "done" /\ Answered) =>
     IF \/ answer.kind = "returned" /\ answer.value
        \/ answer.kind = "line" /\ answer.text = << "ALLOW" >>
     THEN executed # << >> \/ WriteFailed
     ELSE DeniedWithReceipt

\* C6 (amended): in interactive mode a risky command without a valid token is
\* executed only when the callback returns true or the typed line, with its
\* leading and trailing whitespace removed, is exactly ALLOW; on any other
\* answer the run is a DENY with exit code 1, one DENY receipt and no
\* execution.
StrippedAllowOnly ==
  (pc = "done" /\ Answered) =>
     /\ Risky(intent) /\ ~HasValidToken(intent) /\ ~skip_confirm /\ prompts = 1
     /\ IF \/ answer.kind = "returned" /\ answer.value
           \/ answer.kind = "line" /\ AllowAfterStripping(answer.text)
        THEN (executed = << command >> /\ OneReceipt(ALLOW)) \/ WriteFailed
        ELSE DeniedWithReceipt

PaddedAllowExecuted ==
  /\ pc = "done"
  /\ Answered
  /\ answer.kind = "line"
  /\ answer.text = << " ", "ALLOW" >>
  /\ executed = << command >>

\* C7 (as stated): when the confirmation collaborator fails or is interrupted
\* instead of answering, the command is not executed and the run is a DENY
\* with a DENY receipt.
FailedConfirmationDenies ==
  (pc = "done" /\ answer # None
     /\ answer.kind \in { "EOFError", "KeyboardInterrupt", "raised" }) =>
     DeniedWithReceipt

CallbackRaisedNoReceipt ==
  /\ pc = "done"
  /\ confirm_callback
  /\ answer = [kind |-> "raised"]
  /\ outcome = Raised("CallbackError")
  /\ log = log0
  /\ executed = << >>

\* C8: when the re-evaluation at Gate 3 yields a hard block, the authorization
\* obtained at Gate 2 does not count: nothing is executed, one DENY receipt is
\* appended and run() raises ExecutionBlocked instead of returning a result.
Gate3BlockRaises ==
  (pc = "done" /\ re_pol # None /\ re_pol.decision = DENY
     /\ ~re_pol.requires_auth) =>
     /\ executed = << >>
     /\ \/ WriteFailed
        \/ /\ outcome = Raised("ExecutionBlocked")
           /\ OneReceipt(DENY)
           /\ rec.token_id = None

Gate3BlockedAfterToken ==
  /\ pc = "done"
  /\ tok # None
  /\ pol.requires_auth
  /\ re_pol # None
  /\ re_pol.decision = DENY
  /\ ~re_pol.requires_auth
  /\ outcome = Raised("ExecutionBlocked")

\* the first always-block rule, in the order of the list, that matches c
FirstBlock(c) ==
  CHOOSE n \in 1..9 : BlockMatches(n, c) /\ \A m \in 1..(n - 1) : ~BlockMatches(m, c)

\* C9: evaluate tries the block rules first, in list order: for a command that
\* matches a block rule the result is DENY without requires_auth and its
\* reason names the first matching rule, whatever the intent is.
BlockRulesFirst ==
  (p_command # None /\ Blocked(p_command)) =>
     /\ p_result.decision = DENY
     /\ ~p_result.requires_auth
     /\ p_result.reason = << "BLOCKED", BlockDescription(FirstBlock(p_command)) >>

TwoRulesMatchRiskyIntent ==
  /\ p_command # None
  /\ Risky(p_intent)
  /\ \E m, n \in 1..9 :
       /\ m < n
       /\ BlockMatches(m, p_command)
       /\ BlockMatches(n, p_command)
       /\ BlockDescription(m) # BlockDescription(n)
  /\ p_result.reason = << "BLOCKED", BlockDescription(FirstBlock(p_command)) >>

\* C10: a policy result asks for authorization only together with DENY, and
\* exactly when the command matches no block rule and the intent is one of
\* file_delete, privilege_escalation, process_kill, system_config.
RequiresAuthIffRiskyUnblocked ==
  p_command # None =>
     /\ p_result.requires_auth => p_result.decision = DENY
     /\ p_result.requires_auth <=> (~Blocked(p_command) /\ Risky(p_intent))
     /\ p_result.decision = ALLOW <=> (~Blocked(p_command) /\ ~Risky(p_intent))

RiskyUnblockedRequiresAuth ==
  /\ p_command # None
  /\ ~Blocked(p_command)
  /\ Risky(p_intent)
  /\ p_intent # classify(p_command)
  /\ p_result.requires_auth
  /\ p_result.decision = DENY

\* the last direct call was of this operation
Called(name) == op # None /\ op.name = name

\* record k of segment f of log l passes the two checks of the chain
Linked(l, f, k) ==
  l[f][k].prev_hash = (IF k = 1 THEN GENESIS_HASH ELSE l[f][k - 1].hash)

Sealed(l, f, k) == l[f][k].hash = compute_hash(l[f][k])

\* C11: after any sequence of write_receipt calls made one at a time, across
\* day boundaries too, in every segment the first record's prev_hash is the
\* genesis hash, every later record's prev_hash is the hash of the record
\* before it in the segment, and every record's hash is the digest of its
\* other fields.
ChainInvariant ==
  \A f \in Days : \A k \in 1..Len(log[f]) : Linked(log, f, k) /\ Sealed(log, f, k)

ChainAcrossDays ==
  /\ Len(log[0]) = 2
  /\ Len(log[1]) = 1
  /\ log[0][2].prev_hash = log[0][1].hash
  /\ log[1][1].prev_hash = GENESIS_HASH
  /\ log[0][1].hash # log[1][1].hash

\* C12 (as stated): after N write_receipt calls on an empty log, in one
\* segment or several, verify_chain returns ok = true with total = N.
RoundTrip ==
  (Called("verify_chain") /\ tamper = None) =>
     op.result = Returns(VerifyResult(TRUE, Total(log, 0), None, NoText))

VerifyRaisesOnWrittenLog ==
  /\ Called("verify_chain")
  /\ tamper = None
  /\ Total(log, 0) = 1
  /\ op.result = [kind |-> "raised", exception |-> "JSONDecodeError"]

\* the global index of record k of segment f: records are counted across the
\* segments in ascending order, from 0
GlobalIndex(f, k) == RecordsBefore(f) + k - 1

\* the record at global index i fails one of the two checks
FailsAt(i) ==
  \E f \in Days : \E k \in 1..Len(log[f]) :
     GlobalIndex(f, k) = i /\ ~(Linked(log, f, k) /\ Sealed(log, f, k))

\* C13 (as stated): changing one field of one record of a valid log makes
\* verify_chain return ok = false with failed_index the global index of that
\* record.
TamperDetectedAtIndex ==
  (tamper # None /\ Called("verify_chain")) =>
     /\ op.result.kind = "returned"
     /\ ~op.result.value.ok
     /\ op.result.value.failed_index = tamper.index

VerifyRaisesOnEditedLog ==
  /\ tamper # None
  /\ tamper.field = "prev_hash"
  /\ Called("verify_chain")
  /\ op.result.kind = "raised"

\* C14 (as stated): verify_chain returns ok = true exactly when every record
\* of every segment passes both checks, and otherwise returns the smallest
\* global index at which a check fails.
VerifyIffAllPass ==
  Called("verify_chain") =>
     /\ op.result.kind = "returned"
     /\ op.result.value.ok <=> ~\E i \in 0..MaxWrites : FailsAt(i)
     /\ op.result.value.ok => op.result.value.total = Total(log, 0)
     /\ ~op.result.value.ok =>
          /\ FailsAt(op.result.value.failed_index)
          /\ \A j \in 0..(op.result.value.failed_index - 1) : ~FailsAt(j)

VerifyRaisesBeforeChecking ==
  /\ Called("verify_chain")
  /\ op.result.kind = "raised"
  /\ \E i \in 0..MaxWrites : FailsAt(i)

\* the stored token is for intent i and expires strictly after instant t
Unexpired(token, i, t) == token.intent = i /\ token.expires_at.iso8601 > t

\* C15: find_valid_token(intent) returns the earliest-stored token of that
\* intent whose expires_at is strictly after the current instant (a token
\* that expires at the current instant is not valid), returns None when there
\* is none, and leaves the token store as it was.
FindValidReturnsEarliest ==
  [][(op' # op /\ op' # None /\ op'.name = "find_valid_token") =>
      /\ tokens' = tokens
      /\ IF \E k \in 1..Len(tokens) : Unexpired(tokens[k], op'.args[1], now)
         THEN \E k \in 1..Len(tokens) :
                /\ Unexpired(tokens[k], op'.args[1], now)
                /\ \A j \in 1..(k - 1) : ~Unexpired(tokens[j], op'.args[1], now)
                /\ op'.result = tokens[k]
         ELSE op'.result = None]_vars

LookupSkipsTokenAtExpiry ==
  /\ Called("find_valid_token")
  /\ Len(op.tokens) = 2
  /\ op.tokens[1].intent = op.args[1]
  /\ op.tokens[1].expires_at.iso8601 = op.now
  /\ op.result = op.tokens[2]
  /\ tokens = op.tokens

\* the token expires strictly after the current instant
InFuture(token) == token.expires_at.iso8601 > now

\* C16: prune_expired removes exactly the stored tokens whose expires_at is
\* not strictly after the current instant, keeps the others unchanged and in
\* their order, and returns the number of tokens removed.
PruneRemovesExpired ==
  [][(op' # op /\ op' # None /\ op'.name = "prune_expired") =>
      /\ tokens' = SelectSeq(tokens, InFuture)
      /\ op'.result = Returns(Len(tokens) - Len(tokens'))]_vars

PrunedOneOfTwo ==
  /\ Called("prune_expired")
  /\ Len(op.tokens) = 2
  /\ op.tokens[1].expires_at.iso8601 = op.now
  /\ op.result = Returns(1)
  /\ tokens = << op.tokens[2] >>

\* the receipts of the log l in append order: segments by date, from day d on
RECURSIVE AppendOrder(_, _)
AppendOrder(l, d) ==
  IF d \notin Days THEN << >> ELSE l[d] \o AppendOrder(l, d + 1)

\* the last k elements of the sequence s
MostRecent(s, k) == SubSeq(s, Len(s) - k + 1, Len(s))

\* the smaller of two numbers
Min(a, b) == IF a <= b THEN a ELSE b

\* C17: for every n >= 0 and every log, tail_receipts(n) returns exactly the
\* min(n, total) most recently appended receipts across all segments, in
\* append order with the most recent last.
TailReturnsMostRecent ==
  Called("tail_receipts") =>
    op.result = Returns(MostRecent(AppendOrder(op.log, 0),
                                   Min(op.args[1], Len(AppendOrder(op.log, 0)))))

TailZeroReturnsReceipts ==
  /\ Called("tail_receipts")
  /\ op.args[1] = 0
  /\ op.result.kind = "returned"
  /\ op.result.value # << >>

\* a gate of this run wrote a DENY receipt or returned a DENY result
DeniedByGate ==
  \/ outcome.kind = "returned" /\ outcome.decision = DENY
  \/ outcome = Raised("ExecutionBlocked")

\* C18: every run denied by a gate (block gate, missing authorization,
\* declined confirmation, re-classification gate) ends with exit code 1; an
\* allowed run ends with the exit code of the executed command, where a
\* timeout of the subprocess gives 124 and any other failure of the
\* subprocess a non-zero code, and no exception of the subprocess leaves run().
ExitCodeContract ==
  (pc = "done" /\ outcome # None) =>
    /\ DeniedByGate =>
         /\ cmd_run(outcome) = 1
         /\ outcome.kind = "returned" => outcome.exit_code = 1
         /\ executed = << >>
    /\ executed # << >> =>
         /\ outcome.kind = "returned"
         /\ outcome.decision = ALLOW
         /\ cmd_run(outcome) = outcome.exit_code
         /\ completed.kind = "CompletedProcess" =>
              outcome.exit_code = completed.returncode
         /\ completed.kind = "TimeoutExpired" => outcome.exit_code = 124
         /\ completed.kind = "Exception" => outcome.exit_code # 0

TimeoutExitsWith124 ==
  /\ pc = "done"
  /\ executed = << command >>
  /\ completed.kind = "TimeoutExpired"
  /\ Returned(ALLOW, 124)
  /\ cmd_run(outcome) = 124

\* the sequence s is a prefix of the sequence t
IsPrefix(s, t) == Len(s) <= Len(t) /\ SubSeq(t, 1, Len(s)) = s

\* C19: no operation of the system (run, write_receipt, read_receipts,
\* tail_receipts, verify_chain, issue_token, find_valid_token, prune_expired)
\* changes or removes a receipt already in the log: the records of every
\* segment before a step are a prefix of its records after the step.
ReceiptsAppendOnly ==
  [][\A f \in Days : IsPrefix(log[f], log'[f])]_vars

RunAppendedAfterEarlierReceipts ==
  /\ pc = "done"
  /\ rec # None
  /\ Len(log0[today_file]) >= 1
  /\ log[today_file] = Append(log0[today_file], rec)

\* the intents outside the risky set
UnriskyIntents == { "safe_echo", "shell_run", "network_exec", "disk_format" }

\* run() asked the token store for a token
ConsultedTokenStore ==
  tok # None \/ \E k \in 1..Len(trace) : trace[k] = "find_valid_token"

Unclassified(c) == \A n \in 1..Len(RULES) : ~RuleMatches(n, Strip(c))

\* a valid token was found or the confirmation was given in this run
ExplicitlyAuthorized == tok # None \/ authorized

\* C21: the policy is deny-by-default: a command that matches no
\* classification rule (so it gets the fallback intent shell_run) and no
\* block rule is denied by evaluate, and run() does not execute it unless a
\* token or a confirmation authorizes it.
DenyByDefault ==
  (pc # "idle" /\ Unclassified(command) /\ ~Blocked(command)) =>
    /\ classify(command) = SHELL_RUN
    /\ evaluate(command, classify(command)).decision = DENY
    /\ executed # << >> => ExplicitlyAuthorized

UnclassifiedRanUnauthorized ==
  /\ pc = "done"
  /\ Unclassified(command)
  /\ ~Blocked(command)
  /\ intent = SHELL_RUN
  /\ pol.decision = ALLOW
  /\ executed = << command >>
  /\ tokens = << >>
  /\ ~ExplicitlyAuthorized
  /\ prompts = 0

\* the recorded call is one of classify or evaluate
PureCall(call) == call # None /\ call.name \in { "classify", "evaluate" }

\* C22: classify and evaluate are pure and deterministic: two calls with the
\* same command (and intent), made in any two states of the token store, the
\* receipt log and the clock, return the same result, and neither call
\* changes the token store or the log.
PureAndDeterministic ==
  [][/\ (PureCall(op') /\ op' # op) => (tokens' = tokens /\ log' = log)
     /\ (PureCall(op) /\ PureCall(op') /\ op'.name = op.name /\ op'.args = op.args)
          => op'.result = op.result]_vars

EvaluatedAfterStateChanged ==
  /\ Called("evaluate")
  /\ op.args = << Cmd(<< "rm", "-rf", "x" >>, FALSE), FILE_DELETE >>
  /\ op.result.decision = DENY
  /\ op.now = 1
  /\ op.log[0] # << >>
  /\ \E k \in 1..Len(op.tokens) :
        op.tokens[k].intent = FILE_DELETE /\ op.tokens[k].expires_at.iso8601 > op.now
  /\ tokens = op.tokens
  /\ log = op.log

\* the rule groups in the order the contract gives them
GroupOrder ==
  << "disk_format", "network_exec", "file_delete", "privilege_escalation",
     "process_kill", "system_config", "safe_echo" >>

\* a rule of intent i matches the trimmed command
GroupMatches(i, c) ==
  \E n \in 1..Len(RULES) : RULES[n] = i /\ RuleMatches(n, Strip(c))

\* rule n is the lowest-positioned rule that matches the trimmed command
LowestMatch(n, c) ==
  /\ RuleMatches(n, Strip(c))
  /\ \A m \in 1..(n - 1) : ~RuleMatches(m, Strip(c))

\* C23: for every command, classify returns exactly one intent of the closed
\* enumeration: the intent of the lowest-positioned rule that matches the
\* trimmed command, the groups being ordered disk_format, network_exec,
\* file_delete, privilege_escalation, process_kill, system_config, safe_echo,
\* and shell_run when no rule matches (the empty command included); a command
\* matched by a rule of a dangerous intent and by a safe_echo rule is never
\* classified safe_echo.
ClassifyFirstMatchWins ==
  Called("classify") =>
    LET c == op.args[1]
        i == op.result.intent
    IN /\ i \in ALL_INTENTS
       /\ \A n \in 1..Len(RULES) : LowestMatch(n, c) => i = RULES[n]
       /\ Unclassified(c) <=> i = "shell_run"
       /\ \A g \in 1..Len(GroupOrder) :
            (GroupMatches(GroupOrder[g], c)
               /\ \A h \in 1..(g - 1) : ~GroupMatches(GroupOrder[h], c))
            => i = GroupOrder[g]
       /\ (GroupMatches("safe_echo", c)
             /\ \E g \in 1..6 : GroupMatches(GroupOrder[g], c))
            => i # "safe_echo"

EchoThenRmIsFileDelete ==
  /\ Called("classify")
  /\ GroupMatches("safe_echo", op.args[1])
  /\ GroupMatches("file_delete", op.args[1])
  /\ op.result.intent = "file_delete"

\* C24: every mutation of the token store (issue_token, prune_expired)
\* rewrites the token file atomically: at every point of the mutation, a
\* crash part-way through the write included, a reader of the file sees the
\* complete previous token set or the complete new one, never an empty or
\* partial one.
AtomicRewrite ==
  \A p \in Procs :
    (procs[p].pc \in { "write", "crashed" }
       \/ (procs[p].pc = "done" /\ procs[p].ret.kind = "returned")) =>
      load_tokens \in { Returns(procs[p].loaded),
                        Returns(ToSave(procs[p].call, procs[p].loaded)) }

ReaderSawTruncatedStore ==
  /\ Called("load_tokens")
  /\ op.result.kind = "raised"
  /\ procs[1].pc = "write"
  /\ procs[1].call.name = "prune_expired"
  /\ procs[1].loaded # << >>
  /\ ToSave(procs[1].call, procs[1].loaded) = procs[1].loaded

\* two records of one segment of the log l carry the same prev_hash
SamePrevHash(l) ==
  \E f \in Days : \E j, k \in 1..Len(l[f]) :
     j < k /\ l[f][j].prev_hash = l[f][k].prev_hash

\* C25: when two processes run write_receipt at the same time on one segment,
\* both can read the same last hash before either appends; the segment then
\* holds two records with the same prev_hash and verify_chain returns
\* ok = false on a log nobody edited. With the calls made one at a time no
\* such state is reachable.
ChainBreaksOnlyWhenRaced ==
  /\ SamePrevHash(log) => (hist.raced /\ ~verify_chain.value.ok)
  /\ ~hist.raced => (~SamePrevHash(log) /\ verify_chain.value.ok)

RacedWritesFailVerification ==
  /\ hist.raced
  /\ tamper = None
  /\ Quiescent
  /\ Called("verify_chain")
  /\ op.log = log
  /\ SamePrevHash(log)
  /\ ~op.result.value.ok
  /\ op.result.value.failed_index = 1

\* the token record t is in the store
Stored(t) == \E k \in 1..Len(tokens) : tokens[k] = t

\* a token that issue_token returned is unexpired and not in the store
LostToken(t) ==
  /\ t \in hist.returned
  /\ t.expires_at.iso8601 > now
  /\ ~Stored(t)

\* C26: when two processes run issue_token and/or prune_expired at the same
\* time, their load and save steps can interleave so that a token returned by
\* a completed issue_token is absent from the store although it has not
\* expired, and a later run for that intent is denied; with the calls made one
\* at a time, every issued token stays findable until it expires or is pruned.
TokenLostOnlyWhenRaced ==
  /\ (~hist.raced /\ Quiescent) =>
        /\ tokens_ok
        /\ \A t \in hist.returned :
              t.expires_at.iso8601 > now =>
                 (Stored(t) /\ find_valid_token(t.intent) # None)
  /\ (Quiescent /\ \E t \in hist.returned : LostToken(t)) => hist.raced
  /\ (pc = "done" /\ ~HasValidToken(intent)) => (Returned(DENY, 1) \/ WriteFailed)

RunDeniedAfterLostToken ==
  /\ hist.raced
  /\ tokens_ok
  /\ pc = "done"
  /\ \E t \in hist.returned : LostToken(t) /\ t.intent = intent
  /\ ~HasValidToken(intent)
  /\ Returned(DENY, 1)

\* records were deleted from the end of a segment of a log that verified
DeletedFromValidLog ==
  /\ tamper # None
  /\ tamper.before.kind = "returned"
  /\ tamper.before.value.ok

\* C27: deletions that leave every remaining segment a prefix of its original
\* are not detected: from a valid log, deleting a whole segment file or the
\* last k records of a segment gives a log on which verify_chain still returns
\* ok = true, with total reduced by the number of deleted records.
DeletionUndetected ==
  DeletedFromValidLog =>
    /\ \A f \in Days : IsPrefix(log[f], tamper.log[f])
    /\ verify_chain =
         Returns(VerifyResult(TRUE, tamper.before.value.total - tamper.deleted,
                              None, NoText))
    /\ Called("verify_chain") => op.result = verify_chain

SegmentDeletedVerifies ==
  /\ DeletedFromValidLog
  /\ tamper.file = 0
  /\ tamper.deleted = 2
  /\ log[0] = << >>
  /\ Len(log[1]) = 1
  /\ Called("verify_chain")
  /\ op.result.value.ok
  /\ op.result.value.total = 1

\* the step named s is in the trace of this run
Took(s) == \E k \in 1..Len(trace) : trace[k] = s

\* the steps of a run that reaches execution, in order: the token lookup is
\* there when lookup holds, the confirmation when asked holds
GateOrder(lookup, asked) ==
  << "classify", "evaluate" >>
    \o (IF lookup THEN << "find_valid_token" >> ELSE << >>)
    \o (IF asked THEN << "confirm" >> ELSE << >>)
    \o << "reclassify", "write_receipt ALLOW", "execute" >>

\* C28: in every run that invokes the execution collaborator the steps were
\* taken in this order: classify, evaluate, token lookup (only for a
\* requires_auth result), confirmation (only when no valid token was found and
\* the run is interactive), second classify and evaluate of the same command,
\* ALLOW receipt write, execute; the confirmation collaborator is never
\* invoked for a block-matched command, for a non-risky command, when a valid
\* token exists, or in non-interactive mode.
GatesInOrder ==
  /\ executed # << >> =>
       /\ trace = GateOrder(pol.requires_auth,
                            pol.requires_auth /\ tok = None /\ ~skip_confirm)
       /\ re_intent = classify(command)
       /\ re_pol = evaluate(command, re_intent)
       /\ rec # None /\ rec.decision = ALLOW /\ rec.command = command
  /\ (prompts > 0 \/ Took("confirm")) =>
       /\ prompts = 1
       /\ ~Blocked(command)
       /\ Risky(intent)
       /\ ~HasValidToken(intent)
       /\ tok = None
       /\ ~skip_confirm
       /\ Len(trace) >= 4
       /\ SubSeq(trace, 1, 4) = << "classify", "evaluate", "find_valid_token", "confirm" >>

ConfirmedRunTookEveryStep ==
  /\ pc = "done"
  /\ executed = << command >>
  /\ prompts = 1
  /\ tokens # << >>
  /\ trace = << "classify", "evaluate", "find_valid_token", "confirm",
                "reclassify", "write_receipt ALLOW", "execute" >>

\* the result is an unconditional block: DENY that no authorization lifts
HardBlock(r) == r.decision = DENY /\ ~r.requires_auth

\* C29: within one run the block branch of Gate 3 is never taken: the second
\* classification and evaluation are made on the same command string and give
\* the first results again, so no run raises ExecutionBlocked and every
\* command that passed Gate 1 passes Gate 3.
Gate3NeverBlocks ==
  /\ outcome # Raised("ExecutionBlocked")
  /\ Took("reclassify") =>
       /\ ~HardBlock(pol)
       /\ re_intent = intent
       /\ re_pol = pol
       /\ ~HardBlock(re_pol)
       /\ ~Took("write_receipt DENY")
       /\ pc \in { "gate4", "execute", "done" }
       /\ pc = "done" => Took("write_receipt ALLOW")

RiskyRunPassedGate3 ==
  /\ pc = "gate4"
  /\ Took("reclassify")
  /\ pol.requires_auth
  /\ re_pol = pol
  /\ tok # None \/ prompts = 1

\* the run is between the token lookup of Gate 2a and _execute_command, and a
\* token authorized it
AfterLookup == pc \in { "gate3", "gate4", "execute" } /\ tok # None

\* one non-interactive run() of a risky command authorized by a token, while
\* the clock advances and another process calls prune_expired between the
\* token lookup and the execution
NextStale ==
  \/ \E ttl \in TTLs : pc = "idle" /\ Quiescent /\ IssueToken(FILE_DELETE, ttl)
  \/ pc = "idle" /\ Tick
  \/ Quiescent /\ tokens_ok /\ Start(Cmd(<< "rm", "-rf", "x" >>, FALSE), TRUE, FALSE)
  \/ Classify
  \/ Evaluate
  \/ Gate1
  \/ Gate2a
  \/ Gate3
  \/ Gate4
  \/ Execute
  \/ AfterLookup /\ TimePasses
  \/ AfterLookup /\ PruneStart(2)
  \/ LoadTokens(2)
  \/ SaveOpen(2)
  \/ SaveWrite(2)
  \/ Return(2)

SpecStale == Init /\ [][NextStale]_vars

\* C30: in a run authorized by a token, the token is in the store and its
\* expires_at is strictly later than the clock at the moment _execute_command
\* is called, also when time advances or another process prunes the store
\* between the token lookup of Gate 2a and the execution.
TokenValidAtExecution ==
  (pc = "execute" /\ tok # None) =>
     /\ Stored(tok)
     /\ tok.expires_at.iso8601 > now

ExecutedWithPrunedToken ==
  /\ pc = "done"
  /\ executed = << command >>
  /\ tok # None
  /\ rec.token_id = tok.token_id
  /\ tok.expires_at.iso8601 <= now
  /\ tokens_ok
  /\ ~Stored(tok)

\* run() returned or raised and its caller is free to call it again; the
\* commands handed to _execute_command so far are kept
RunReturns ==
  /\ pc = "done"
  /\ Total(log, 0) < MaxRuns
  /\ pc' = "idle"
  /\ intent' = NoText
  /\ pol' = None
  /\ tok' = None
  /\ token_id' = None
  /\ expires_at' = None
  /\ answer' = None
  /\ authorized' = FALSE
  /\ re_intent' = NoText
  /\ re_pol' = None
  /\ rec' = None
  /\ outcome' = None
  /\ trace' = << >>
  /\ prompts' = 0
  /\ completed' = None
  /\ UNCHANGED << always_block, tokens, issued, now, log, callVars, executed,
                  policyVars, raceVars, opVars >>

\* the commands of the runs made one after another
ReuseCommands ==
  { Cmd(<< "rm", "-rf", "/" >>, FALSE),
    Cmd(<< "rm", "-rf", "x" >>, FALSE),
    Cmd(<< "rm", "x" >>, FALSE),
    Cmd(<< "kill", "-9", "x" >>, FALSE) }

\* run() called again and again, and between the runs file_delete tokens
\* issued and pruned and time passing
NextReuse ==
  \/ \E ttl \in TTLs : IssueToken(FILE_DELETE, ttl)
  \/ PruneExpired
  \/ Tick
  \/ \E c \in ReuseCommands, sc \in BOOLEAN : Start(c, sc, FALSE)
  \/ Classify
  \/ Evaluate
  \/ Gate1
  \/ Gate2a
  \/ Confirm
  \/ Gate2b
  \/ Gate3
  \/ Gate4
  \/ Execute
  \/ RunReturns

SpecReuse == Init /\ [][NextReuse]_vars

\* the ALLOW receipts in today's file that name the token t
AuthorizedBy(t) ==
  { k \in 1..Len(log[today_file]) :
      /\ log[today_file][k].decision = ALLOW
      /\ log[today_file][k].token_id = t.token_id }

\* C31: run() never modifies the token store, on any path: a token is not
\* consumed by authorizing a command, so one unexpired token for an intent
\* authorizes every later run of any non-blocked command of that intent until
\* it expires or is pruned.
RunKeepsTokenStore ==
  /\ pc # "idle" => tokens = tokens0
  /\ tok # None => Stored(tok)
  /\ (pc = "done" /\ pol.requires_auth /\ HasValidToken(intent)) =>
        /\ tok = find_valid_token(intent)
        /\ tok # None
        /\ prompts = 0
        /\ \/ outcome = Raised("OSError")
           \/ /\ executed # << >>
              /\ executed[Len(executed)] = command
              /\ rec.decision = ALLOW
              /\ rec.token_id = tok.token_id

OneTokenAuthorizedTwoRuns ==
  /\ pc = "done"
  /\ tok # None
  /\ issued = 1
  /\ tokens = << tok >>
  /\ Len(executed) = 2
  /\ executed[1] # executed[2]
  /\ Cardinality(AuthorizedBy(tok)) = 2

====
